---- MODULE Spec2Model ----
(***************************************************************************)
(* Purchase validation and entitlement reconciliation of toss-or-taste:    *)
(* the Apple and Google credits endpoints, the Apple subscription endpoint *)
(* and the Apple server-notification webhook, as handlers that run against *)
(* a shared store (profiles, apple_iap_transactions,                       *)
(* google_play_transactions).  Every await on the store or on a platform   *)
(* API is one step of a handler; the local computation that follows an     *)
(* await belongs to the same step.                                         *)
(***************************************************************************)
EXTENDS Integers, Sequences, FiniteSets, TLC

\* ---------------------------------------------------------------- bounds
\* Handler invocations in one behaviour.
MaxOps == 3
\* Handler invocations in one behaviour when they may overlap.
MaxConc == 2

\* ------------------------------------------------------------ value sets
Users == {"u1", "u2"}
\* A request without a usable session: no Authorization header, or a token
\* that auth.getUser resolves to no user.
NoAuthHeader == "noheader"
BadToken == "badtoken"
Callers == Users \cup {NoAuthHeader, BadToken}

\* Apple transaction ids (also used as original transaction ids).
TxIds == {"T1", "T2"}
\* Google order ids and purchase tokens.
OrderIds == {"G1", "G2"}
Tokens == {"K1"}
\* Apple receipts are opaque blobs.
Receipts == {"R1"}
\* A string field that is missing from a JSON body (undefined) or empty: both
\* are falsy in the handlers' `if (!x)` checks.
Missing == ""

\* Product ids are strings; the handlers test them with String.includes, so a
\* product id is modelled as the sequence of its dot-separated parts and the
\* empty sequence is the missing/empty string.
ProdSingle == <<"com", "tossortaste", "app", "single_credit">>
ProdPack == <<"com", "tossortaste", "app", "credit_pack">>
ProdMonthly == <<"com", "tossortaste", "app", "premium_monthly">>
ProdAnnual == <<"com", "tossortaste", "app", "premium_annual">>
NoProduct == <<>>
CreditProducts == {ProdSingle, ProdPack}
SubProducts == {ProdMonthly, ProdAnnual}

\* String.prototype.includes for the needles the handlers use: the needle is
\* a substring of the id when it is one of its parts or the tail of a part
\* after "premium_".
PartIncludes(part, needle) ==
  \/ part = needle
  \/ part = "premium_monthly" /\ needle = "monthly"
  \/ part = "premium_annual" /\ needle = "annual"

Includes(pid, needle) == \E i \in 1..Len(pid) : PartIncludes(pid[i], needle)

\* Millisecond timestamps arrive as strings (expires_date_ms,
\* purchaseTimeMillis): sequences of characters, <<>> when missing or empty.
Digits == {"0", "1", "2", "3", "4", "5", "6", "7", "8", "9"}
DigitVal(c) ==
  CASE c = "0" -> 0 [] c = "1" -> 1 [] c = "2" -> 2 [] c = "3" -> 3
    [] c = "4" -> 4 [] c = "5" -> 5 [] c = "6" -> 6 [] c = "7" -> 7
    [] c = "8" -> 8 [] c = "9" -> 9

NaN == -2
RECURSIVE ParseDigits(_, _)
ParseDigits(s, acc) ==
  IF s = <<>> \/ Head(s) \notin Digits
  THEN acc
  ELSE ParseDigits(Tail(s), 10 * acc + DigitVal(Head(s)))

\* parseInt: the leading run of decimal digits, NaN when there is none.
parseInt(s) ==
  IF s = <<>> \/ Head(s) \notin Digits THEN NaN ELSE ParseDigits(s, 0)

\* new Date(n).toISOString() throws a RangeError on an invalid date.
DateThrows(n) == n = NaN

MsStrings == {<<>>, <<"1">>, <<"3">>, <<"x">>}

\* A null timestamp column.
NULL == -1

\* ------------------------------------------------------------------ state
VARIABLES
  now,       \* the wall clock (new Date()); it advances with every arrival
  profiles,  \* table profiles: user -> entitlement columns
  ledger,    \* table apple_iap_transactions: transaction_id -> row
  gledger,   \* table google_play_transactions: order_id -> row
  req,       \* the handler invocations: slot -> position and locals
  created,   \* apple_iap_transactions' keys, oldest created_at first
  last,      \* the last credits grant or notification that was answered
  client     \* GooglePlayBillingService in the app: handlers and purchase

vars == <<now, profiles, ledger, gledger, created, req, last, client>>

Slots == {"a", "b"}

\* A row of the profiles table (the entitlement columns).
Profile(credits, type, status, expires) ==
  [room_credits |-> credits, subscription_type |-> type,
   subscription_status |-> status, subscription_expires_at |-> expires]

\* No row for this key.
NoRow ==
  [present |-> FALSE, user_id |-> "", original_transaction_id |-> Missing,
   product_id |-> NoProduct, product_type |-> "",
   subscription_expires_at |-> NULL, validation_status |-> "",
   processed |-> FALSE]

\* A row of apple_iap_transactions / google_play_transactions.
Row(u, orig, pid, ptype, expires, vstatus, processed) ==
  [present |-> TRUE, user_id |-> u, original_transaction_id |-> orig,
   product_id |-> pid, product_type |-> ptype,
   subscription_expires_at |-> expires, validation_status |-> vstatus,
   processed |-> processed]

\* insert: the UNIQUE constraint on the key rejects a second row; the handlers
\* never look at the error an insert returns, so a conflict changes nothing.
Insert(table, key, row) ==
  IF table[key].present THEN table ELSE [table EXCEPT ![key] = row]

\* upsert with onConflict on the key: insert, or overwrite the supplied
\* columns of the existing row.
Upsert(table, key, row) == [table EXCEPT ![key] = row]

\* A store whose refused writes take effect all the same.
WriteAlways(ok, table, written) == written

\* A write that the store may refuse (ok = FALSE): nothing is stored then.
Write(ok, table, written) == IF ok THEN written ELSE table

\* created_at (DEFAULT NOW(), never written again) orders the rows of
\* apple_iap_transactions: the keys in the order their rows were created.
Created(ord, table, key) == IF table[key].present THEN ord ELSE Append(ord, key)

\* ------------------------------------------------------- handler records
NoResp ==
  [code |-> 0, success |-> FALSE, creditsAdded |-> -1, newTotal |-> -1,
   expiresAt |-> NULL, err |-> "", subscribed |-> FALSE,
   subscription_type |-> "", subscription_status |-> ""]

\* HTTP 500 with { error }.
ErrResp(e) == [NoResp EXCEPT !.code = 500, !.err = e]

\* HTTP 200 with { success: true, ... }.
OkResp(added, total, expires) ==
  [NoResp EXCEPT !.code = 200, !.success = TRUE, !.creditsAdded = added,
                 !.newTotal = total, !.expiresAt = expires]

Snapshot == [profiles |-> profiles, ledger |-> ledger, gledger |-> gledger]

InitProfiles ==
  [u \in Users |-> Profile(IF u = "u1" THEN 3 ELSE 0, "none", "inactive", NULL)]

InitSnapshot ==
  [profiles |-> InitProfiles, ledger |-> [t \in TxIds |-> NoRow],
   gledger |-> [o \in OrderIds |-> NoRow]]

\* No profile row has been read.
NoProfile == Profile(0, "", "", NULL)

IdleReq ==
  [kind |-> "none", pc |-> "idle", seq |-> 0, started |-> 0,
   user |-> "", tid |-> Missing, pid |-> NoProduct, proof |-> Missing,
   ntype |-> "", orig |-> Missing, ms |-> <<>>, auto_renew_status |-> Missing,
   found |-> "", amount |-> 0, cur |-> 0, subType |-> "", expires |-> NULL,
   target |-> "", calls |-> <<>>, vstatus |-> -1, wrote |-> {},
   failed |-> {}, entry |-> Missing, read |-> NoProfile,
   resp |-> NoResp, pre |-> InitSnapshot]

InFlight(r) == req[r].pc # "idle"

\* The slot a new invocation takes: the first idle one.
FreeSlot(r) == req[r].pc = "idle" /\ (r = "b" => req["a"].pc # "idle")

\* A new invocation may begin under scope sc: the budget allows it, the slot
\* is free and, when handlers run one after the other, nothing else is in
\* flight.
CanStart(r, sc) ==
  /\ now < sc.budget
  /\ FreeSlot(r)
  /\ sc.sequential => \A s \in Slots : ~InFlight(s)

\* The locals of a fresh invocation.
NewReq(kind, u, t, p, proof) ==
  [IdleReq EXCEPT !.kind = kind, !.pc = "start", !.seq = now + 1,
                  !.started = now + 1, !.user = u, !.tid = t, !.pid = p,
                  !.proof = proof, !.pre = Snapshot]

\* The invocation has written table what; the store answered with an error
\* when bad, which is remembered in failed.
Wrote(q, what, bad) ==
  [q EXCEPT !.wrote = @ \cup {what},
            !.failed = IF bad THEN @ \cup {what} ELSE @]

\* The handler's catch block: HTTP 500 with the error message.
Throw(q, e) == [q EXCEPT !.pc = "done", !.resp = ErrResp(e)]

\* What is remembered of an answered request: what was sent and the response.
NoLast ==
  [kind |-> "none", seq |-> 0, user |-> "", tid |-> Missing,
   pid |-> NoProduct, proof |-> Missing, ntype |-> "", orig |-> Missing,
   ms |-> <<>>, auto_renew_status |-> Missing, resp |-> NoResp]

Summary(q) ==
  [kind |-> q.kind, seq |-> q.seq, user |-> q.user, tid |-> q.tid,
   pid |-> q.pid, proof |-> q.proof, ntype |-> q.ntype, orig |-> q.orig,
   ms |-> q.ms, auto_renew_status |-> q.auto_renew_status, resp |-> q.resp]

\* GooglePlayBillingService after construction: not initialized, no handler
\* registered by purchaseCredits, no purchase under way. single counts, per
\* product, the handler pairs that setupSinglePurchaseHandler has added;
\* waiting and inflight count the handleVerifiedPurchase calls before and
\* after their supabase.functions.invoke; invoked and notified count the
\* backend validations and the purchase-complete notifications of the
\* purchase under way.
NewService ==
  [isInitialized |-> FALSE, single |-> [p \in CreditProducts |-> 0],
   order |-> NoProduct, phase |-> "idle", waiting |-> 0, inflight |-> 0,
   invoked |-> 0, notified |-> 0]

\* ------------------------------------------------------------------- init
Init ==
  /\ now = 0
  /\ profiles = InitProfiles
  /\ ledger = [t \in TxIds |-> NoRow]
  /\ gledger = [o \in OrderIds |-> NoRow]
  /\ created = <<>>
  /\ req = [r \in Slots |-> IdleReq]
  /\ last = NoLast
  /\ client = NewService

\* The last call of the invocation to a verifier failed: the fetch threw or
\* the answer was not 2xx.
VerifierFailed(q) == q.calls # <<>> /\ q.calls[Len(q.calls)].status = -1

\* The response has been sent; the invocation is over.
Finish(r) ==
  /\ req[r].pc = "done"
  /\ req' = [req EXCEPT ![r] = IdleReq]
  /\ last' = IF \/ req[r].resp.success /\ req[r].resp.creditsAdded > 0
                \/ req[r].kind = "webhook" /\ req[r].ntype # ""
                \/ VerifierFailed(req[r])
             THEN Summary(req[r])
             ELSE NoLast
  /\ UNCHANGED <<client, now, profiles, ledger, gledger, created>>

\* ------------------------------------------------- Apple's verifyReceipt
\* One entry of receipt.in_app or latest_receipt_info.
Entry(t, o, p, ms) ==
  [transaction_id |-> t, original_transaction_id |-> o, product_id |-> p,
   expires_date_ms |-> ms]

\* What Array.prototype.find returns when nothing matches.
NoEntry == Entry(Missing, Missing, NoProduct, <<>>)

CreditEntries == {Entry(t, t, p, <<>>) : t \in TxIds, p \in CreditProducts}

\* Subscription entries: T1 starts a subscription or renews T0, T2 renews
\* T0 or T1.
SubEntries ==
  {Entry(t, o, p, ms) : t \in TxIds, o \in {"T0", "T1"}, p \in SubProducts,
                        ms \in MsStrings}

\* verifyReceipt's JSON answer: status, receipt.in_app, latest_receipt_info
\* (hasLatest is FALSE when the field is absent).
AppleAnswer(st, inApp, hasLatest, latest) ==
  [net |-> TRUE, status |-> st, in_app |-> inApp, hasLatest |-> hasLatest,
   latest_receipt_info |-> latest]

\* fetch failed or answered non-2xx.
NetFail == [AppleAnswer(-1, <<>>, FALSE, <<>>) EXCEPT !.net = FALSE]

StatusOK == 0
StatusSandbox == 21007
BadStatuses == {21002}

\* The answers with status 0 that are explored: one consumable or
\* subscription entry in in_app or in latest_receipt_info, an empty receipt,
\* and a subscription with its renewal in latest_receipt_info.
GoodAnswers ==
  {AppleAnswer(StatusOK, <<e>>, FALSE, <<>>) :
     e \in CreditEntries \cup {Entry(t, "T1", p, <<"3">>) :
                                 t \in TxIds, p \in SubProducts}}
  \cup {AppleAnswer(StatusOK, <<>>, TRUE, <<e>>) : e \in CreditEntries \cup SubEntries}
  \cup {AppleAnswer(StatusOK, <<>>, FALSE, <<>>)}
  \cup {AppleAnswer(StatusOK, <<>>, TRUE,
                    <<Entry("T1", o, p, <<"1">>), Entry("T2", o, p, ms)>>) :
          o \in {"T0", "T1"}, p \in SubProducts, ms \in MsStrings}

BadAnswers == {AppleAnswer(st, <<>>, FALSE, <<>>) : st \in BadStatuses}

EndpointAnswers == GoodAnswers \cup BadAnswers \cup {NetFail}

\* One request to a verifier: the endpoint, the proof sent and the status (or
\* purchaseState) it answered.
Call(endpoint, proof, status) ==
  [endpoint |-> endpoint, proof |-> proof, status |-> status]

\* A validateWithApple that never turns to the sandbox endpoint.
validateProductionOnly(receiptData, prod, sandbox) ==
  [answer |-> prod, calls |-> <<Call("production", receiptData, prod.status)>>]

\* validateWithApple: production first, sandbox when production says 21007.
\* prod and sandbox are what the two endpoints would answer; the result is the
\* answer used and the calls made.
validateWithApple(receiptData, prod, sandbox) ==
  IF prod.net /\ prod.status = StatusSandbox
  THEN [answer |-> sandbox,
        calls |-> <<Call("production", receiptData, prod.status),
                    Call("sandbox", receiptData, sandbox.status)>>]
  ELSE [answer |-> prod, calls |-> <<Call("production", receiptData, prod.status)>>]

\* The answers of a subscription T1 that renews as T2: one entry of it in
\* latest_receipt_info, or a rejected receipt.
RenewingAnswers ==
  {AppleAnswer(StatusOK, <<>>, TRUE, <<Entry(t, "T1", p, ms)>>) :
     t \in TxIds, p \in SubProducts, ms \in {<<"1">>, <<"3">>}}
  \cup BadAnswers

\* Status 21007: the receipt belongs to the other environment.
WrongEnvironment == AppleAnswer(StatusSandbox, <<>>, FALSE, <<>>)

\* Every result validateWithApple can have when the endpoints answer from
\* answers; sandbox receipts (production answers 21007) are among them when
\* sandbox is TRUE.
Verifications(receiptData, answers, sandbox) ==
  {validateWithApple(receiptData, p, NetFail) : p \in answers}
  \cup {validateWithApple(receiptData, WrongEnvironment, s) :
          s \in IF sandbox THEN answers \cup {WrongEnvironment} ELSE {}}

\* Array.prototype.find: the first element of s that passes the test, hits
\* being the indexes of the elements that pass it.
Find(s, hits) ==
  IF hits = {} THEN NoEntry
  ELSE s[CHOOSE i \in hits : \A j \in hits : i <= j]

\* The indexes of the entries of s with transaction id tid.
ById(s, tid) == {i \in 1..Len(s) : s[i].transaction_id = tid}

\* ------------------------------------------------- apple-iap-process-credits
\* A lookup that settles for the first in_app entry when none has the id.
CreditsPurchaseOrFirst(ans, tid) ==
  LET inApp == Find(ans.in_app, ById(ans.in_app, tid))
  IN IF inApp = NoEntry /\ ans.hasLatest
     THEN Find(ans.latest_receipt_info, ById(ans.latest_receipt_info, tid))
     ELSE IF inApp = NoEntry /\ ans.in_app # <<>> THEN ans.in_app[1]
     ELSE inApp

\* The purchase entry the credits endpoint matches: in_app by transaction id,
\* then latest_receipt_info.
CreditsPurchase(ans, tid) ==
  LET inApp == Find(ans.in_app, ById(ans.in_app, tid))
  IN IF inApp = NoEntry /\ ans.hasLatest
     THEN Find(ans.latest_receipt_info, ById(ans.latest_receipt_info, tid))
     ELSE inApp

\* A mapping that grants one credit for either credit product.
CreditAmountFlat(pid) ==
  IF Includes(pid, "single_credit") \/ Includes(pid, "credit_pack") THEN 1 ELSE 0

\* creditAmount by product id; 0 stands for the thrown "Unknown credit product".
CreditAmount(pid) ==
  IF Includes(pid, "single_credit") THEN 1
  ELSE IF Includes(pid, "credit_pack") THEN 5
  ELSE 0

\* A request body: { receiptData | purchaseToken, productId,
\* transactionId | orderId }.
Body(proof, p, t) == [proof |-> proof, pid |-> p, tid |-> t]

\* The bodies that lack a required field (one body for each field).
BrokenBodies(proofs, ids) ==
  LET pr == CHOOSE x \in proofs : TRUE
      id == CHOOSE x \in ids : TRUE
  IN {Body(Missing, ProdSingle, id), Body(pr, NoProduct, id),
      Body(pr, ProdSingle, Missing)}

Bodies(proofs, products, ids) ==
  {Body(pr, p, t) : pr \in proofs, p \in products, t \in ids}
  \cup BrokenBodies(proofs, ids)

\* An acceptance that does not ask for a productId.
AcceptAnyProduct(kind, u, b) ==
  LET q0 == NewReq(kind, u, Missing, NoProduct, Missing)
      q == NewReq(kind, u, b.tid, b.pid, b.proof)
  IN IF u = NoAuthHeader THEN Throw(q0, "No authorization header provided")
     ELSE IF u = BadToken THEN Throw(q0, "User not authenticated")
     ELSE IF b.proof = Missing THEN Throw(q, "proof is required")
     ELSE IF b.tid = Missing THEN Throw(q, "transactionId is required")
     ELSE [q EXCEPT !.pc = "lookup"]

\* Authentication and body parsing, common to the purchase endpoints; the
\* body is read only once the caller is authenticated.
Accept(kind, u, b) ==
  LET q0 == NewReq(kind, u, Missing, NoProduct, Missing)
      q == NewReq(kind, u, b.tid, b.pid, b.proof)
  IN IF u = NoAuthHeader THEN Throw(q0, "No authorization header provided")
     ELSE IF u = BadToken THEN Throw(q0, "User not authenticated")
     ELSE IF b.proof = Missing THEN Throw(q, "proof is required")
     ELSE IF b.pid = NoProduct THEN Throw(q, "productId is required")
     ELSE IF b.tid = Missing THEN Throw(q, "transactionId is required")
     ELSE [q EXCEPT !.pc = "lookup"]

\* The product ids submitted to a credits endpoint.
CreditsProductInputs == {ProdSingle, ProdPack, ProdMonthly}

AppleCreditsStart(r, sc) ==
  /\ CanStart(r, sc)
  /\ \E u \in sc.callers, b \in Bodies(Receipts, CreditsProductInputs \cap sc.products, TxIds \cap sc.ids) :
       req' = [req EXCEPT ![r] = Accept("appleCredits", u, b)]
  /\ now' = now + 1
  /\ UNCHANGED <<client, profiles, ledger, gledger, created, last>>

\* A lookup that never finds the row.
AfterLookupBlind(q, row) == [q EXCEPT !.pc = "verify", !.found = "none"]

\* The ledger lookup and the branch on what it finds.
AfterLookup(q, row) ==
  IF ~row.present THEN [q EXCEPT !.pc = "verify", !.found = "none"]
  ELSE IF row.validation_status = "valid"
       THEN [q EXCEPT !.pc = "replay", !.found = "valid"]
       ELSE Throw([q EXCEPT !.found = row.validation_status],
                  "Transaction was previously rejected")

AppleCreditsLookup(r) ==
  /\ req[r].kind = "appleCredits" /\ req[r].pc = "lookup"
  /\ req' = [req EXCEPT ![r] = AfterLookup(req[r], ledger[req[r].tid])]
  /\ UNCHANGED <<client, now, profiles, ledger, gledger, created, last>>

\* A replay that answers with the purchase counted once more.
CreditsReplayRecount(q) ==
  [q EXCEPT !.pc = "done",
            !.resp = OkResp(-1, profiles[q.user].room_credits + CreditAmount(q.pid),
                            NULL)]

\* The idempotent replay: read room_credits and answer success.
CreditsReplay(q) ==
  [q EXCEPT !.pc = "done",
            !.resp = OkResp(-1, profiles[q.user].room_credits, NULL)]

AppleCreditsReplay(r) ==
  /\ req[r].kind = "appleCredits" /\ req[r].pc = "replay"
  /\ req' = [req EXCEPT ![r] = CreditsReplay(req[r])]
  /\ UNCHANGED <<client, now, profiles, ledger, gledger, created, last>>

\* A handler that records the purchase without applying it to the profile.
AppleCreditsVerifiedRecordOnly(q, v) ==
  LET ans == v.answer
      purchase == CreditsPurchase(ans, q.tid)
      q1 == [q EXCEPT !.calls = v.calls,
                      !.entry = IF ans.net /\ ans.status = StatusOK
                                THEN purchase.transaction_id ELSE Missing]
  IN IF ~ans.net THEN Throw(q1, "Apple validation request failed")
     ELSE IF ans.status # StatusOK
          THEN [q1 EXCEPT !.pc = "insertInvalid", !.vstatus = ans.status]
     ELSE IF purchase = NoEntry
          THEN Throw([q1 EXCEPT !.vstatus = ans.status],
                     "Transaction not found in receipt")
     ELSE IF purchase.product_id # q.pid
          THEN Throw([q1 EXCEPT !.vstatus = ans.status], "Product ID mismatch")
     ELSE IF CreditAmount(q.pid) = 0
          THEN Throw([q1 EXCEPT !.vstatus = ans.status], "Unknown credit product")
     ELSE [q1 EXCEPT !.pc = "insert", !.vstatus = ans.status,
                     !.amount = CreditAmount(q.pid)]

\* After validateWithApple: status check, purchase matching, product-id
\* cross-check and credit mapping.
AppleCreditsVerified(q, v) ==
  LET ans == v.answer
      purchase == CreditsPurchase(ans, q.tid)
      q1 == [q EXCEPT !.calls = v.calls,
                      !.entry = IF ans.net /\ ans.status = StatusOK
                                THEN purchase.transaction_id ELSE Missing]
  IN IF ~ans.net THEN Throw(q1, "Apple validation request failed")
     ELSE IF ans.status # StatusOK
          THEN [q1 EXCEPT !.pc = "insertInvalid", !.vstatus = ans.status]
     ELSE IF purchase = NoEntry
          THEN Throw([q1 EXCEPT !.vstatus = ans.status],
                     "Transaction not found in receipt")
     ELSE IF purchase.product_id # q.pid
          THEN Throw([q1 EXCEPT !.vstatus = ans.status], "Product ID mismatch")
     ELSE IF CreditAmount(q.pid) = 0
          THEN Throw([q1 EXCEPT !.vstatus = ans.status], "Unknown credit product")
     ELSE [q1 EXCEPT !.pc = "readProfile", !.vstatus = ans.status,
                     !.amount = CreditAmount(q.pid)]

AppleCreditsVerify(r, sc) ==
  /\ req[r].kind = "appleCredits" /\ req[r].pc = "verify"
  /\ \E v \in Verifications(req[r].proof, sc.answers, sc.sandbox) :
       req' = [req EXCEPT ![r] = AppleCreditsVerified(req[r], v)]
  /\ UNCHANGED <<client, now, profiles, ledger, gledger, created, last>>

\* The row recorded for a failed validation.
InvalidRow(q, ptype) ==
  Row(q.user, Missing, q.pid, ptype, NULL, "invalid", FALSE)

AppleCreditsInsertInvalid(r, sc) ==
  /\ req[r].kind = "appleCredits" /\ req[r].pc = "insertInvalid"
  /\ \E ok \in sc.writes :
       LET row == InvalidRow(req[r], "consumable")
           stored == Write(ok, ledger, Insert(ledger, req[r].tid, row))
       IN /\ ledger' = stored
          /\ created' = IF ok THEN Created(created, ledger, req[r].tid) ELSE created
          /\ req' = [req EXCEPT ![r] =
                       Throw(Wrote(req[r], "ledger", ~ok \/ ledger[req[r].tid].present),
                             "Apple receipt validation failed")]
  /\ UNCHANGED <<client, now, profiles, gledger, last>>

\* Read room_credits (currentCredits).
AppleCreditsReadProfile(r) ==
  /\ req[r].kind = "appleCredits" /\ req[r].pc = "readProfile"
  /\ req' = [req EXCEPT ![r] = [req[r] EXCEPT !.pc = "update",
                                  !.cur = profiles[req[r].user].room_credits]]
  /\ UNCHANGED <<client, now, profiles, ledger, gledger, created, last>>

\* A sum that counts the purchase twice.
NewCreditsTwice(q) == q.cur + q.amount + q.amount

\* newCredits = currentCredits + creditAmount.
NewCredits(q) == q.cur + q.amount

\* Write room_credits back.
CreditsUpdate(q) == [profiles EXCEPT ![q.user].room_credits = NewCredits(q)]

AppleCreditsUpdate(r, sc) ==
  /\ req[r].kind = "appleCredits" /\ req[r].pc = "update"
  /\ \E ok \in sc.writes :
       /\ profiles' = Write(ok, profiles, CreditsUpdate(req[r]))
       /\ req' = [req EXCEPT ![r] =
                    IF ok
                    THEN [Wrote(req[r], "profile", FALSE) EXCEPT !.pc = "insert"]
                    ELSE Throw(Wrote(req[r], "profile", TRUE), "Failed to update credits")]
  /\ UNCHANGED <<client, now, ledger, gledger, created, last>>

\* The row recorded for a granted consumable.
ValidCreditsRow(q) ==
  Row(q.user, Missing, q.pid, "consumable", NULL, "valid", TRUE)

\* Record the transaction and answer { success, creditsAdded, newTotal }.
AppleCreditsInsert(r, sc) ==
  /\ req[r].kind = "appleCredits" /\ req[r].pc = "insert"
  /\ \E ok \in sc.writes :
       LET row == ValidCreditsRow(req[r])
           stored == Write(ok, ledger, Insert(ledger, req[r].tid, row))
       IN /\ ledger' = stored
          /\ created' = IF ok THEN Created(created, ledger, req[r].tid) ELSE created
          /\ req' = [req EXCEPT ![r] =
                       [Wrote(req[r], "ledger", ~ok \/ ledger[req[r].tid].present)
                          EXCEPT !.pc = "done", !.resp = OkResp(req[r].amount, NewCredits(req[r]), NULL)]]
  /\ UNCHANGED <<client, now, profiles, gledger, last>>

AppleCredits(r, sc) ==
  \/ AppleCreditsStart(r, sc)
  \/ AppleCreditsLookup(r)
  \/ AppleCreditsReplay(r)
  \/ AppleCreditsVerify(r, sc)
  \/ AppleCreditsInsertInvalid(r, sc)
  \/ AppleCreditsReadProfile(r)
  \/ AppleCreditsUpdate(r, sc)
  \/ AppleCreditsInsert(r, sc)

\* ------------------------------------------------ google-iap-process-credits
\* validatePurchaseToken: the token exchange or the purchases API fails
\* (net = FALSE), or the purchase resource comes back with its purchaseState
\* (0 purchased, 1 canceled, 2 pending). purchaseTimeMillis, which the API
\* reports for every purchase, is a number: building purchase_date from it
\* does not throw.
GoogleAnswers == [net : BOOLEAN, purchaseState : {0, 1, 2}]

GoogleCreditsStart(r, sc) ==
  /\ CanStart(r, sc)
  /\ \E u \in sc.callers, b \in Bodies(Tokens, CreditsProductInputs \cap sc.products, OrderIds \cap sc.ids) :
       req' = [req EXCEPT ![r] = Accept("googleCredits", u, b)]
  /\ now' = now + 1
  /\ UNCHANGED <<client, profiles, ledger, gledger, created, last>>

GoogleCreditsLookup(r) ==
  /\ req[r].kind = "googleCredits" /\ req[r].pc = "lookup"
  /\ req' = [req EXCEPT ![r] = AfterLookup(req[r], gledger[req[r].tid])]
  /\ UNCHANGED <<client, now, profiles, ledger, gledger, created, last>>

GoogleCreditsReplay(r) ==
  /\ req[r].kind = "googleCredits" /\ req[r].pc = "replay"
  /\ req' = [req EXCEPT ![r] = CreditsReplay(req[r])]
  /\ UNCHANGED <<client, now, profiles, ledger, gledger, created, last>>

\* A check that takes a pending purchase (purchaseState 2) for a purchased one.
GoogleCreditsVerifiedPending(q, ans) ==
  LET q1 == [q EXCEPT !.calls = <<Call("google", q.proof,
                                       IF ans.net THEN ans.purchaseState ELSE -1)>>]
  IN IF ~ans.net THEN Throw(q1, "Google Play API validation failed")
     ELSE IF ans.purchaseState = 1
          THEN [q1 EXCEPT !.pc = "insertInvalid", !.vstatus = ans.purchaseState]
     ELSE IF CreditAmount(q.pid) = 0
          THEN Throw([q1 EXCEPT !.vstatus = ans.purchaseState], "Unknown credit product")
     ELSE [q1 EXCEPT !.pc = "readProfile", !.vstatus = ans.purchaseState,
                     !.amount = CreditAmount(q.pid)]

\* A check that records a failed call to Google as a rejected purchase.
GoogleCreditsVerifiedRecordsFailure(q, ans) ==
  LET q1 == [q EXCEPT !.calls = <<Call("google", q.proof,
                                       IF ans.net THEN ans.purchaseState ELSE -1)>>]
  IN IF ~ans.net \/ ans.purchaseState # 0
     THEN [q1 EXCEPT !.pc = "insertInvalid",
                     !.vstatus = IF ans.net THEN ans.purchaseState ELSE -1]
     ELSE IF CreditAmount(q.pid) = 0
          THEN Throw([q1 EXCEPT !.vstatus = 0], "Unknown credit product")
     ELSE [q1 EXCEPT !.pc = "readProfile", !.vstatus = 0,
                     !.amount = CreditAmount(q.pid)]

\* After validatePurchaseToken: purchaseState check and credit mapping.
GoogleCreditsVerified(q, ans) ==
  LET q1 == [q EXCEPT !.calls = <<Call("google", q.proof,
                                       IF ans.net THEN ans.purchaseState ELSE -1)>>]
  IN IF ~ans.net THEN Throw(q1, "Google Play API validation failed")
     ELSE IF ans.purchaseState # 0
          THEN [q1 EXCEPT !.pc = "insertInvalid", !.vstatus = ans.purchaseState]
     ELSE IF CreditAmount(q.pid) = 0
          THEN Throw([q1 EXCEPT !.vstatus = 0], "Unknown credit product")
     ELSE [q1 EXCEPT !.pc = "readProfile", !.vstatus = 0,
                     !.amount = CreditAmount(q.pid)]

GoogleCreditsVerify(r, sc) ==
  /\ req[r].kind = "googleCredits" /\ req[r].pc = "verify"
  /\ \E ans \in GoogleAnswers :
       req' = [req EXCEPT ![r] = GoogleCreditsVerified(req[r], ans)]
  /\ UNCHANGED <<client, now, profiles, ledger, gledger, created, last>>

GoogleCreditsInsertInvalid(r, sc) ==
  /\ req[r].kind = "googleCredits" /\ req[r].pc = "insertInvalid"
  /\ \E ok \in sc.writes :
       LET row == InvalidRow(req[r], "consumable")
           stored == Write(ok, gledger, Insert(gledger, req[r].tid, row))
       IN /\ gledger' = stored
          /\ req' = [req EXCEPT ![r] =
                       Throw(Wrote(req[r], "ledger", ~ok \/ gledger[req[r].tid].present),
                             "Purchase not valid")]
  /\ UNCHANGED <<client, now, profiles, ledger, created, last>>

GoogleCreditsReadProfile(r) ==
  /\ req[r].kind = "googleCredits" /\ req[r].pc = "readProfile"
  /\ req' = [req EXCEPT ![r] = [req[r] EXCEPT !.pc = "update",
                                  !.cur = profiles[req[r].user].room_credits]]
  /\ UNCHANGED <<client, now, profiles, ledger, gledger, created, last>>

GoogleCreditsUpdate(r, sc) ==
  /\ req[r].kind = "googleCredits" /\ req[r].pc = "update"
  /\ \E ok \in sc.writes :
       /\ profiles' = Write(ok, profiles, CreditsUpdate(req[r]))
       /\ req' = [req EXCEPT ![r] =
                    IF ok
                    THEN [Wrote(req[r], "profile", FALSE) EXCEPT !.pc = "insert"]
                    ELSE Throw(Wrote(req[r], "profile", TRUE), "Failed to update credits")]
  /\ UNCHANGED <<client, now, ledger, gledger, created, last>>

GoogleCreditsInsert(r, sc) ==
  /\ req[r].kind = "googleCredits" /\ req[r].pc = "insert"
  /\ \E ok \in sc.writes :
       LET row == ValidCreditsRow(req[r])
           stored == Write(ok, gledger, Insert(gledger, req[r].tid, row))
       IN /\ gledger' = stored
          /\ req' = [req EXCEPT ![r] =
                       [Wrote(req[r], "ledger", ~ok \/ gledger[req[r].tid].present)
                          EXCEPT !.pc = "done", !.resp = OkResp(req[r].amount, NewCredits(req[r]), NULL)]]
  /\ UNCHANGED <<client, now, profiles, ledger, created, last>>

GoogleCredits(r, sc) ==
  \/ GoogleCreditsStart(r, sc)
  \/ GoogleCreditsLookup(r)
  \/ GoogleCreditsReplay(r)
  \/ GoogleCreditsVerify(r, sc)
  \/ GoogleCreditsInsertInvalid(r, sc)
  \/ GoogleCreditsReadProfile(r)
  \/ GoogleCreditsUpdate(r, sc)
  \/ GoogleCreditsInsert(r, sc)

\* ------------------------------------------- apple-iap-process-subscription
\* The product ids submitted to the subscription endpoint.
SubProductInputs == {ProdMonthly, ProdAnnual, ProdSingle}

\* The purchase entry the subscription endpoint uses: latest_receipt_info by
\* transaction id, original transaction id or "first purchase", then in_app,
\* then the last entry of latest_receipt_info.
SubPurchase(ans, tid) ==
  LET latest == IF ans.hasLatest THEN ans.latest_receipt_info ELSE <<>>
      InLatest(p) == \/ p.transaction_id = tid
                     \/ p.original_transaction_id = tid
                     \/ p.transaction_id = p.original_transaction_id
      InApp(p) == p.transaction_id = tid \/ p.original_transaction_id = tid
      first == Find(latest, {i \in 1..Len(latest) : InLatest(latest[i])})
      second == IF first = NoEntry
                THEN Find(ans.in_app,
                          {i \in 1..Len(ans.in_app) : InApp(ans.in_app[i])})
                ELSE first
  IN IF second = NoEntry /\ Len(latest) > 0 THEN latest[Len(latest)] ELSE second

\* subscriptionType by product id.
SubscriptionType(pid) == IF Includes(pid, "monthly") THEN "monthly" ELSE "annual"

\* An expiry computed from the server clock.
ExpiresDateLocal(purchase) == now + 1

\* expiresDate: the matched entry's expires_date_ms, parsed.
ExpiresDate(purchase) == parseInt(purchase.expires_date_ms)

AppleSubStart(r, sc) ==
  /\ CanStart(r, sc)
  /\ \E u \in sc.callers, b \in Bodies(Receipts, SubProductInputs \cap sc.products, TxIds \cap sc.ids) :
       req' = [req EXCEPT ![r] = Accept("appleSub", u, b)]
  /\ now' = now + 1
  /\ UNCHANGED <<client, profiles, ledger, gledger, created, last>>

\* The ledger lookup of the subscription endpoint: a valid row leads to the
\* profile read that tells a replay from a zombie.
AppleSubLookup(r) ==
  /\ req[r].kind = "appleSub" /\ req[r].pc = "lookup"
  /\ req' = [req EXCEPT ![r] = AfterLookup(req[r], ledger[req[r].tid])]
  /\ UNCHANGED <<client, now, profiles, ledger, gledger, created, last>>

\* A replay that re-activates a zombie from the stored record.
SubReplayStored(q) ==
  LET p == profiles[q.user]
  IN IF p.subscription_status = "active" /\ p.subscription_expires_at # NULL
     THEN [q EXCEPT !.pc = "done",
                    !.resp = OkResp(-1, -1, p.subscription_expires_at)]
     ELSE [q EXCEPT !.pc = "update", !.found = "zombie",
                    !.subType = SubscriptionType(q.pid),
                    !.expires = ledger[q.tid].subscription_expires_at,
                    !.orig = ledger[q.tid].original_transaction_id]

\* Read the profile: answer the replay when the subscription is active with an
\* expiry, validate again otherwise.
SubReplay(q) ==
  LET p == profiles[q.user]
  IN IF p.subscription_status = "active" /\ p.subscription_expires_at # NULL
     THEN [q EXCEPT !.pc = "done",
                    !.resp = OkResp(-1, -1, p.subscription_expires_at)]
     ELSE [q EXCEPT !.pc = "verify", !.found = "zombie"]

AppleSubReplay(r) ==
  /\ req[r].kind = "appleSub" /\ req[r].pc = "replay"
  /\ req' = [req EXCEPT ![r] = SubReplay(req[r])]
  /\ UNCHANGED <<client, now, profiles, ledger, gledger, created, last>>

\* After validateWithApple: status check, purchase matching, product-id
\* cross-check, expiry.
AppleSubVerified(q, v) ==
  LET ans == v.answer
      q1 == [q EXCEPT !.calls = v.calls]
      q2 == [q1 EXCEPT !.vstatus = ans.status]
      purchase == SubPurchase(ans, q.tid)
      q3 == [q2 EXCEPT !.ms = purchase.expires_date_ms,
                       !.entry = purchase.transaction_id]
  IN IF ~ans.net THEN Throw(q1, "Apple validation request failed")
     ELSE IF ans.status # StatusOK THEN [q2 EXCEPT !.pc = "insertInvalid"]
     ELSE IF purchase = NoEntry THEN Throw(q2, "Transaction not found in receipt")
     ELSE IF purchase.product_id # q.pid THEN Throw(q2, "Product ID mismatch")
     ELSE IF purchase.expires_date_ms = <<>>
          THEN Throw(q3, "No expiration date in receipt")
     ELSE IF DateThrows(ExpiresDate(purchase)) THEN Throw(q3, "RangeError")
     ELSE [q3 EXCEPT !.pc = "update",
                     !.subType = SubscriptionType(q.pid),
                     !.expires = ExpiresDate(purchase),
                     !.orig = IF purchase.original_transaction_id = Missing
                              THEN q.tid
                              ELSE purchase.original_transaction_id]

AppleSubVerify(r, sc) ==
  /\ req[r].kind = "appleSub" /\ req[r].pc = "verify"
  /\ \E v \in Verifications(req[r].proof, sc.answers, sc.sandbox) :
       req' = [req EXCEPT ![r] = AppleSubVerified(req[r], v)]
  /\ UNCHANGED <<client, now, profiles, ledger, gledger, created, last>>

AppleSubInsertInvalid(r, sc) ==
  /\ req[r].kind = "appleSub" /\ req[r].pc = "insertInvalid"
  /\ \E ok \in sc.writes :
       LET row == InvalidRow(req[r], "subscription")
           stored == Write(ok, ledger, Insert(ledger, req[r].tid, row))
       IN /\ ledger' = stored
          /\ created' = IF ok THEN Created(created, ledger, req[r].tid) ELSE created
          /\ req' = [req EXCEPT ![r] =
                       Throw(Wrote(req[r], "ledger", ~ok \/ ledger[req[r].tid].present),
                             "Apple receipt validation failed")]
  /\ UNCHANGED <<client, now, profiles, gledger, last>>

\* The profile update that activates the subscription.
Activate(u, type, expires) ==
  [profiles EXCEPT ![u].subscription_type = type,
                   ![u].subscription_status = "active",
                   ![u].subscription_expires_at = expires]

AppleSubUpdate(r, sc) ==
  /\ req[r].kind = "appleSub" /\ req[r].pc = "update"
  /\ \E ok \in sc.writes :
       /\ profiles' = Write(ok, profiles,
                           Activate(req[r].user, req[r].subType, req[r].expires))
       /\ req' = [req EXCEPT ![r] =
                    IF ok
                    THEN [Wrote(req[r], "profile", FALSE) EXCEPT !.pc = "upsert"]
                    ELSE Throw(Wrote(req[r], "profile", TRUE),
                               "Failed to update subscription")]
  /\ UNCHANGED <<client, now, ledger, gledger, created, last>>

\* The row upserted for an activated subscription.
ValidSubRow(q) ==
  Row(q.user, q.orig, q.pid, "subscription", q.expires, "valid", TRUE)

AppleSubUpsert(r, sc) ==
  /\ req[r].kind = "appleSub" /\ req[r].pc = "upsert"
  /\ \E ok \in sc.writes :
       LET row == ValidSubRow(req[r])
           stored == Write(ok, ledger, Upsert(ledger, req[r].tid, row))
       IN /\ ledger' = stored
          /\ created' = IF ok THEN Created(created, ledger, req[r].tid) ELSE created
          /\ req' = [req EXCEPT ![r] =
                       [Wrote(req[r], "ledger", ~ok)
                          EXCEPT !.pc = "done", !.resp = OkResp(-1, -1, req[r].expires)]]
  /\ UNCHANGED <<client, now, profiles, gledger, last>>

AppleSub(r, sc) ==
  \/ AppleSubStart(r, sc)
  \/ AppleSubLookup(r)
  \/ AppleSubReplay(r)
  \/ AppleSubVerify(r, sc)
  \/ AppleSubInsertInvalid(r, sc)
  \/ AppleSubUpdate(r, sc)
  \/ AppleSubUpsert(r, sc)

\* ------------------------------------------------ apple-server-notifications
RenewTypes == {"DID_RENEW", "RENEWAL"}
CancelTypes == {"DID_CHANGE_RENEWAL_STATUS", "CANCEL"}
\* A notification type the switch has no case for.
UnknownType == "PRICE_INCREASE_CONSENT"

\* A notification body.  shape: "notjson" (req.json() throws), "nodata"
\* (neither payload.data nor unified_receipt.latest_receipt_info[0]) or "data";
\* the fields of data are Missing / NoProduct / <<>> when absent;
\* auto_renew_status is that of unified_receipt.pending_renewal_info[0],
\* Missing when the body has none.
Notification(shape, ntype, orig, tid, pid, ms, ar) ==
  [shape |-> shape, ntype |-> ntype, orig |-> orig, tid |-> tid, pid |-> pid,
   ms |-> ms, auto_renew_status |-> ar]

\* auto_renew_status: "1" on, "0" off, or absent.
AutoRenewValues == {"1", "0", Missing}

\* autoRenewStatus = renewalInfo?.auto_renew_status === "1".
autoRenewStatus(q) == q.auto_renew_status = "1"

\* The notifications explored.  A field that the case of the notification's
\* type never reads is left absent.
Notifications(origs) ==
  {Notification("data", n, o, t, p, ms, "1") :
     n \in RenewTypes, o \in origs, t \in TxIds, p \in SubProducts,
     ms \in {<<"1">>, <<"3">>}}
  \cup {Notification("data", n, o, Missing, ProdMonthly, <<"3">>, "1") :
          n \in RenewTypes, o \in origs}
  \cup {Notification("data", n, o, "T2", NoProduct, <<"3">>, "1") :
          n \in RenewTypes, o \in origs}
  \cup {Notification("data", n, o, "T2", ProdMonthly, ms, "1") :
          n \in RenewTypes, o \in origs, ms \in {<<>>, <<"x">>}}
  \cup {Notification("data", n, o, Missing, NoProduct, <<>>, ar) :
          n \in CancelTypes, o \in origs, ar \in AutoRenewValues}
  \cup {Notification("data", n, o, Missing, NoProduct, <<>>, Missing) :
          n \in {"DID_FAIL_TO_RENEW", "REVOKE", UnknownType}, o \in origs}
  \cup {Notification("data", "REFUND", o, t, NoProduct, <<>>, Missing) :
          o \in origs \cup {Missing}, t \in TxIds \cup {Missing}}
  \cup {Notification("data", "DID_RECOVER", o, Missing, NoProduct, ms, Missing) :
          o \in origs, ms \in MsStrings}
  \cup {Notification(sh, "REVOKE", Missing, Missing, NoProduct, <<>>, Missing) :
          sh \in {"notjson", "nodata"}}

\* HTTP 200 with { received: true }.
Ack(q) == [q EXCEPT !.pc = "done", !.resp = [NoResp EXCEPT !.code = 200]]

\* An attribution that falls back to the owner of the newest record.
OwnerOrNewest(orig) ==
  LET hits == {i \in 1..Len(created) :
                 ledger[created[i]].original_transaction_id = orig}
  IN IF orig # Missing /\ hits # {}
     THEN ledger[created[CHOOSE i \in hits : \A j \in hits : j <= i]].user_id
     ELSE IF created = <<>> THEN ""
     ELSE ledger[created[Len(created)]].user_id

\* The user the notification is attributed to: user_id of the row with this
\* original_transaction_id that was created last ("" when there is none).
Owner(orig) ==
  LET hits == {i \in 1..Len(created) :
                 ledger[created[i]].original_transaction_id = orig}
  IN IF orig = Missing \/ hits = {} THEN ""
     ELSE ledger[created[CHOOSE i \in hits : \A j \in hits : j <= i]].user_id

\* A switch whose default case marks the subscription as failed.
DispatchDefaultFails(q) ==
  CASE q.ntype \in RenewTypes ->
         IF q.pid = NoProduct THEN Throw(q, "TypeError")
         ELSE IF DateThrows(parseInt(q.ms)) THEN Throw(q, "RangeError")
         ELSE [q EXCEPT !.pc = "renewUpdate",
                        !.subType = SubscriptionType(q.pid),
                        !.expires = parseInt(q.ms)]
    [] q.ntype \in CancelTypes ->
         IF ~autoRenewStatus(q) THEN [q EXCEPT !.pc = "statusUpdate"] ELSE Ack(q)
    [] q.ntype = "DID_FAIL_TO_RENEW" -> [q EXCEPT !.pc = "statusUpdate"]
    [] q.ntype = "REFUND" -> [q EXCEPT !.pc = "refundLedger"]
    [] q.ntype = "REVOKE" -> [q EXCEPT !.pc = "revokeUpdate"]
    [] q.ntype = "DID_RECOVER" ->
         IF DateThrows(parseInt(q.ms)) THEN Throw(q, "RangeError")
         ELSE [q EXCEPT !.pc = "recoverUpdate", !.expires = parseInt(q.ms)]
    [] OTHER -> [q EXCEPT !.pc = "statusUpdate"]

\* The switch on notification_type, up to the first store write of the case.
Dispatch(q) ==
  CASE q.ntype \in RenewTypes ->
         IF q.pid = NoProduct THEN Throw(q, "TypeError")
         ELSE IF DateThrows(parseInt(q.ms)) THEN Throw(q, "RangeError")
         ELSE [q EXCEPT !.pc = "renewUpdate",
                        !.subType = SubscriptionType(q.pid),
                        !.expires = parseInt(q.ms)]
    [] q.ntype \in CancelTypes ->
         IF ~autoRenewStatus(q) THEN [q EXCEPT !.pc = "statusUpdate"] ELSE Ack(q)
    [] q.ntype = "DID_FAIL_TO_RENEW" -> [q EXCEPT !.pc = "statusUpdate"]
    [] q.ntype = "REFUND" -> [q EXCEPT !.pc = "refundLedger"]
    [] q.ntype = "REVOKE" -> [q EXCEPT !.pc = "revokeUpdate"]
    [] q.ntype = "DID_RECOVER" ->
         IF DateThrows(parseInt(q.ms)) THEN Throw(q, "RangeError")
         ELSE [q EXCEPT !.pc = "recoverUpdate", !.expires = parseInt(q.ms)]
    [] OTHER -> Ack(q)

\* Parse the body, look the owner up and enter the switch.
Receive(n) ==
  LET q0 == [IdleReq EXCEPT !.kind = "webhook", !.pc = "start",
                            !.seq = now + 1, !.started = now + 1,
                            !.ntype = n.ntype, !.pre = Snapshot]
      q == [q0 EXCEPT !.orig = n.orig, !.tid = n.tid, !.pid = n.pid,
                      !.ms = n.ms, !.auto_renew_status = n.auto_renew_status,
                      !.target = Owner(n.orig)]
  IN IF n.shape = "notjson" THEN Throw([q0 EXCEPT !.ntype = ""], "SyntaxError")
     ELSE IF n.shape = "nodata" THEN Ack(q0)
     ELSE IF q.target = "" THEN Ack(q)
     ELSE Dispatch(q)

WebhookReceive(r, sc) ==
  /\ CanStart(r, sc)
  /\ \E n \in Notifications(sc.origs) : req' = [req EXCEPT ![r] = Receive(n)]
  /\ now' = now + 1
  /\ UNCHANGED <<client, profiles, ledger, gledger, created, last>>

WebhookRenewUpdate(r) ==
  /\ req[r].kind = "webhook" /\ req[r].pc = "renewUpdate"
  /\ profiles' = Activate(req[r].target, req[r].subType, req[r].expires)
  /\ req' = [req EXCEPT ![r] = [req[r] EXCEPT !.pc = "renewInsert",
                                  !.wrote = @ \cup {"profile"}]]
  /\ UNCHANGED <<client, now, ledger, gledger, created, last>>

\* The row inserted for a renewal.
RenewalRow(q) ==
  Row(q.target, q.orig, q.pid, "subscription", q.expires, "valid", TRUE)

\* transaction_id is NOT NULL: without one the insert fails (unnoticed).
WebhookRenewInsert(r) ==
  /\ req[r].kind = "webhook" /\ req[r].pc = "renewInsert"
  /\ IF req[r].tid = Missing
     THEN UNCHANGED <<ledger, created>>
     ELSE /\ ledger' = Insert(ledger, req[r].tid, RenewalRow(req[r]))
          /\ created' = Created(created, ledger, req[r].tid)
  /\ req' = [req EXCEPT ![r] = Ack([req[r] EXCEPT !.wrote = @ \cup {"ledger"}])]
  /\ UNCHANGED <<client, now, profiles, gledger, last>>

\* subscription_status written by the status-only cases.
StatusFor(ntype) == IF ntype \in CancelTypes THEN "cancelled" ELSE "payment_failed"

WebhookStatusUpdate(r) ==
  /\ req[r].kind = "webhook" /\ req[r].pc = "statusUpdate"
  /\ profiles' = [profiles EXCEPT ![req[r].target].subscription_status =
                                    StatusFor(req[r].ntype)]
  /\ req' = [req EXCEPT ![r] = Ack([req[r] EXCEPT !.wrote = @ \cup {"profile"}])]
  /\ UNCHANGED <<client, now, ledger, gledger, created, last>>

\* A refund that also takes back processed.
MarkRefundedUnprocessed(table, tid) ==
  IF tid \in DOMAIN table /\ table[tid].present
  THEN [table EXCEPT ![tid].validation_status = "refunded",
                     ![tid].processed = FALSE]
  ELSE table

\* update ... set validation_status = 'refunded' where transaction_id = tid.
MarkRefunded(table, tid) ==
  IF tid \in DOMAIN table /\ table[tid].present
  THEN [table EXCEPT ![tid].validation_status = "refunded"]
  ELSE table

WebhookRefundLedger(r) ==
  /\ req[r].kind = "webhook" /\ req[r].pc = "refundLedger"
  /\ ledger' = MarkRefunded(ledger, req[r].tid)
  /\ req' = [req EXCEPT ![r] = [req[r] EXCEPT !.pc = "refundProfile",
                                  !.wrote = @ \cup {"ledger"}]]
  /\ UNCHANGED <<client, now, profiles, gledger, created, last>>

\* A termination that leaves the expiry as it is.
TerminateLater(u, status) == [profiles EXCEPT ![u].subscription_status = status]

\* A termination that also resets the subscription type.
TerminateAndReset(u, status) ==
  [profiles EXCEPT ![u].subscription_status = status,
                   ![u].subscription_type = "none",
                   ![u].subscription_expires_at = now]

\* The profile update of REFUND and REVOKE: the status, and expiry now.
Terminate(u, status) ==
  [profiles EXCEPT ![u].subscription_status = status,
                   ![u].subscription_expires_at = now]

WebhookRefundProfile(r) ==
  /\ req[r].kind = "webhook" /\ req[r].pc = "refundProfile"
  /\ profiles' = Terminate(req[r].target, "refunded")
  /\ req' = [req EXCEPT ![r] = Ack([req[r] EXCEPT !.wrote = @ \cup {"profile"}])]
  /\ UNCHANGED <<client, now, ledger, gledger, created, last>>

WebhookRevoke(r) ==
  /\ req[r].kind = "webhook" /\ req[r].pc = "revokeUpdate"
  /\ profiles' = Terminate(req[r].target, "revoked")
  /\ req' = [req EXCEPT ![r] = Ack([req[r] EXCEPT !.wrote = @ \cup {"profile"}])]
  /\ UNCHANGED <<client, now, ledger, gledger, created, last>>

\* A recovery that restores the status and keeps the stored expiry.
WebhookRecoverStatusOnly(r) ==
  /\ req[r].kind = "webhook" /\ req[r].pc = "recoverUpdate"
  /\ profiles' = [profiles EXCEPT
                    ![req[r].target].subscription_status = "active"]
  /\ req' = [req EXCEPT ![r] = Ack([req[r] EXCEPT !.wrote = @ \cup {"profile"}])]
  /\ UNCHANGED <<client, now, ledger, gledger, created, last>>

\* DID_RECOVER: active again with the notification's expiry; the type stays.
WebhookRecover(r) ==
  /\ req[r].kind = "webhook" /\ req[r].pc = "recoverUpdate"
  /\ profiles' = [profiles EXCEPT
                    ![req[r].target].subscription_status = "active",
                    ![req[r].target].subscription_expires_at = req[r].expires]
  /\ req' = [req EXCEPT ![r] = Ack([req[r] EXCEPT !.wrote = @ \cup {"profile"}])]
  /\ UNCHANGED <<client, now, ledger, gledger, created, last>>

Webhook(r, sc) ==
  \/ WebhookReceive(r, sc)
  \/ WebhookRenewUpdate(r)
  \/ WebhookRenewInsert(r)
  \/ WebhookStatusUpdate(r)
  \/ WebhookRefundLedger(r)
  \/ WebhookRefundProfile(r)
  \/ WebhookRevoke(r)
  \/ WebhookRecover(r)

\* --------------------------------------------------------- check-subscription
\* What Stripe answers to customers.list and subscriptions.list: no customer
\* with this email, a customer without an active subscription, or a customer
\* whose active subscription has a price (monthly, yearly, or one the
\* function does not know) and a current_period_end; net is FALSE when a
\* Stripe call throws.
StripeAnswer(customer, active, type, periodEnd) ==
  [net |-> TRUE, customer |-> customer, active |-> active, type |-> type,
   periodEnd |-> periodEnd]

StripePeriodEnds == {9}

StripeAnswers ==
  {StripeAnswer(FALSE, FALSE, "none", NULL), StripeAnswer(TRUE, FALSE, "none", NULL)}
  \cup {StripeAnswer(TRUE, TRUE, t, e) :
          t \in {"monthly", "yearly", "none"}, e \in StripePeriodEnds}
  \cup {[StripeAnswer(FALSE, FALSE, "none", NULL) EXCEPT !.net = FALSE]}

\* HTTP 200 with { subscribed, subscription_type, subscription_status,
\* subscription_expires_at }.
Subscription(q, subscribed, type, expires) ==
  [q EXCEPT !.pc = "done",
            !.resp = [NoResp EXCEPT !.code = 200, !.subscribed = subscribed,
                        !.subscription_type = type,
                        !.subscription_status =
                          IF subscribed THEN "active" ELSE "inactive",
                        !.expiresAt = expires]]

\* Authentication; the function has no body.
CheckSubscriptionStart(r, sc) ==
  /\ CanStart(r, sc)
  /\ \E u \in sc.callers :
       LET q == NewReq("checkSubscription", u, Missing, NoProduct, Missing)
       IN req' = [req EXCEPT ![r] =
                    IF u = NoAuthHeader
                    THEN Throw(q, "No authorization header provided")
                    ELSE IF u = BadToken THEN Throw(q, "Authentication error")
                    ELSE [q EXCEPT !.pc = "readProfile"]]
  /\ now' = now + 1
  /\ UNCHANGED <<client, profiles, ledger, gledger, created, last>>

\* A check that never finds an in-app subscription: Stripe is always asked.
LiveInAppIgnored(profile) == FALSE

\* The profile shows an active in-app subscription that has not expired.
LiveInApp(profile) ==
  /\ profile.subscription_status = "active"
  /\ profile.subscription_expires_at # NULL
  /\ profile.subscription_expires_at > now

\* Read the profile; an active in-app subscription that has not expired is
\* returned as it is stored, without asking Stripe.
CheckSubscriptionReadProfile(r) ==
  /\ req[r].kind = "checkSubscription" /\ req[r].pc = "readProfile"
  /\ LET profile == profiles[req[r].user]
         q == [req[r] EXCEPT !.read = profile]
     IN req' = [req EXCEPT ![r] =
                  IF LiveInApp(profile)
                  THEN Subscription(q, TRUE, profile.subscription_type,
                                    profile.subscription_expires_at)
                  ELSE [q EXCEPT !.pc = "stripe"]]
  /\ UNCHANGED <<client, now, profiles, ledger, gledger, created, last>>

\* Without a Stripe customer the profile is reset unless the status that was
\* read is active.
MayReset(profile) == profile.subscription_status # "active"

\* Ask Stripe for the customer and the active subscription.
CheckSubscriptionStripe(r) ==
  /\ req[r].kind = "checkSubscription" /\ req[r].pc = "stripe"
  /\ \E ans \in StripeAnswers :
       LET q == req[r]
       IN req' = [req EXCEPT ![r] =
                    IF ~ans.net THEN Throw(q, "Stripe")
                    ELSE IF ~ans.customer
                         THEN IF MayReset(q.read)
                              THEN [q EXCEPT !.pc = "reset"]
                              ELSE Subscription(q, FALSE, "none", NULL)
                    ELSE [q EXCEPT !.pc = "overwrite",
                                   !.found = IF ans.active THEN "active"
                                             ELSE "inactive",
                                   !.subType = ans.type,
                                   !.expires = ans.periodEnd]]
  /\ UNCHANGED <<client, now, profiles, ledger, gledger, created, last>>

\* The profile update of the branches that write: status, type and expiry.
Entitle(u, status, type, expires) ==
  [profiles EXCEPT ![u].subscription_status = status,
                   ![u].subscription_type = type,
                   ![u].subscription_expires_at = expires]

\* No Stripe customer: inactive, none, no expiry. The update's result is not
\* read.
CheckSubscriptionReset(r, sc) ==
  /\ req[r].kind = "checkSubscription" /\ req[r].pc = "reset"
  /\ \E ok \in sc.writes :
       /\ profiles' = Write(ok, profiles,
                           Entitle(req[r].user, "inactive", "none", NULL))
       /\ req' = [req EXCEPT ![r] =
                    Subscription(Wrote(req[r], "profile", ~ok), FALSE, "none", NULL)]
  /\ UNCHANGED <<client, now, ledger, gledger, created, last>>

\* A Stripe customer: the profile takes Stripe's state, whatever it held.
CheckSubscriptionOverwrite(r, sc) ==
  /\ req[r].kind = "checkSubscription" /\ req[r].pc = "overwrite"
  /\ \E ok \in sc.writes :
       /\ profiles' = Write(ok, profiles,
                           Entitle(req[r].user, req[r].found, req[r].subType,
                                   req[r].expires))
       /\ req' = [req EXCEPT ![r] =
                    Subscription(Wrote(req[r], "profile", ~ok),
                                 req[r].found = "active", req[r].subType,
                                 req[r].expires)]
  /\ UNCHANGED <<client, now, ledger, gledger, created, last>>

CheckSubscription(r, sc) ==
  \/ CheckSubscriptionStart(r, sc)
  \/ CheckSubscriptionReadProfile(r)
  \/ CheckSubscriptionStripe(r)
  \/ CheckSubscriptionReset(r, sc)
  \/ CheckSubscriptionOverwrite(r, sc)

\* ------------------------------------------------------- googlePlayBilling.ts
\* initialize: the products are registered, setupPurchaseHandlers adds one
\* approved and one verified handler per product, and the store reports ready.
Initialize ==
  /\ ~client.isInitialized
  /\ client' = [client EXCEPT !.isInitialized = TRUE]
  /\ UNCHANGED <<now, profiles, ledger, gledger, created, req, last>>

\* A purchase begins: nothing is counted yet for it.
Ordered(c, p) ==
  [c EXCEPT !.order = p, !.phase = "ordered", !.waiting = 0, !.inflight = 0,
            !.invoked = 0, !.notified = 0]

\* setupSinglePurchaseHandler: one more approved handler and one more
\* verified handler for the product; the earlier ones stay registered.
setupSinglePurchaseHandler(c, p) == [c EXCEPT !.single[p] = @ + 1]

\* purchaseCredits: add the handlers, then order the product.
purchaseCredits(p) ==
  /\ client.isInitialized /\ client.phase = "idle"
  /\ client.single[ProdSingle] + client.single[ProdPack] < MaxOps
  /\ client' = Ordered(setupSinglePurchaseHandler(client, p), p)
  /\ UNCHANGED <<now, profiles, ledger, gledger, created, req, last>>

\* A purchase left pending by an earlier session is delivered after
\* initialize, without a purchaseCredits call.
PendingPurchase(p) ==
  /\ client.isInitialized /\ client.phase = "idle"
  /\ client' = Ordered(client, p)
  /\ UNCHANGED <<now, profiles, ledger, gledger, created, req, last>>

\* The user leaves the Play dialog: no approved event follows.
Cancelled ==
  /\ client.phase = "ordered"
  /\ client' = [client EXCEPT !.phase = "idle", !.order = NoProduct]
  /\ UNCHANGED <<now, profiles, ledger, gledger, created, req, last>>

\* The approved event: the handler of setupPurchaseHandlers finishes the
\* product, every handler of setupSinglePurchaseHandler calls
\* handleVerifiedPurchase.
Approved ==
  /\ client.phase = "ordered"
  /\ client' = [client EXCEPT !.phase = "approved",
                              !.waiting = @ + client.single[client.order]]
  /\ UNCHANGED <<now, profiles, ledger, gledger, created, req, last>>

\* The verified event: the handler of setupPurchaseHandlers and every handler
\* of setupSinglePurchaseHandler call handleVerifiedPurchase.
Verified ==
  /\ client.phase = "approved"
  /\ client' = [client EXCEPT !.phase = "verified",
                              !.waiting = @ + 1 + client.single[client.order]]
  /\ UNCHANGED <<now, profiles, ledger, gledger, created, req, last>>

\* updateBackendCredits reaches supabase.functions.invoke.
updateBackendCredits ==
  /\ client.waiting > 0
  /\ client' = [client EXCEPT !.waiting = @ - 1, !.inflight = @ + 1,
                              !.invoked = @ + 1]
  /\ UNCHANGED <<now, profiles, ledger, gledger, created, req, last>>

\* The backend answers: on success handleVerifiedPurchase notifies the
\* purchase-complete listeners, otherwise the error is logged.
notifyPurchaseComplete ==
  /\ client.inflight > 0
  /\ \E success \in BOOLEAN :
       client' = [client EXCEPT !.inflight = @ - 1,
                                !.notified = IF success THEN @ + 1 ELSE @]
  /\ UNCHANGED <<now, profiles, ledger, gledger, created, req, last>>

\* Every handler of the purchase has run.
Completed(c) == c.phase = "verified" /\ c.waiting = 0 /\ c.inflight = 0

\* The purchase is over; the handlers stay registered for the session.
NextPurchase ==
  /\ Completed(client)
  /\ client' = [client EXCEPT !.phase = "idle", !.order = NoProduct]
  /\ UNCHANGED <<now, profiles, ledger, gledger, created, req, last>>

\* --------------------------------------------------------- specifications
AllProducts == CreditsProductInputs \cup SubProductInputs
AllIds == TxIds \cup OrderIds

\* The credits endpoints of both platforms, one request after the other.
ScopeCredits ==
  [sequential |-> TRUE, writes |-> {TRUE}, budget |-> MaxOps, callers |-> Callers,
   products |-> AllProducts, ids |-> {"T1", "G1", "G2"}, answers |-> EndpointAnswers,
   sandbox |-> TRUE]

NextCredits ==
  \/ \E r \in Slots : Finish(r)
  \/ \E r \in Slots : AppleCredits(r, ScopeCredits)
  \/ \E r \in Slots : GoogleCredits(r, ScopeCredits)

SpecCredits == Init /\ [][NextCredits]_vars

\* The Apple handlers, one invocation after the other.
ScopeApple ==
  [sequential |-> TRUE, writes |-> {TRUE}, budget |-> MaxOps, callers |-> Callers,
   products |-> AllProducts, ids |-> AllIds, answers |-> EndpointAnswers,
   sandbox |-> FALSE]

Next ==
  \/ \E r \in Slots : Finish(r)
  \/ \E r \in Slots : AppleCredits(r, ScopeApple)
  \/ \E r \in Slots : AppleSub(r, ScopeApple)

Spec == Init /\ [][Next]_vars

\* The subscription endpoint and the webhook, one invocation after the other.
ScopeHook ==
  [sequential |-> TRUE, writes |-> {TRUE}, budget |-> MaxOps, callers |-> Users,
   products |-> SubProducts, ids |-> TxIds, answers |-> RenewingAnswers,
   origs |-> TxIds, sandbox |-> FALSE]

NextHook ==
  \/ \E r \in Slots : Finish(r)
  \/ \E r \in Slots : AppleSub(r, ScopeHook)
  \/ \E r \in Slots : Webhook(r, ScopeHook)

SpecHook == Init /\ [][NextHook]_vars

\* What the verifier can say about the purchase T1: a consumable, a
\* subscription, or a rejected receipt.
RaceAnswers ==
  {AppleAnswer(StatusOK, <<Entry("T1", "T1", ProdSingle, <<>>)>>, FALSE, <<>>),
   AppleAnswer(StatusOK, <<>>, TRUE, <<Entry("T1", "T1", ProdMonthly, <<"3">>)>>)}
  \cup BadAnswers

\* The purchase endpoints with overlapping invocations: each await of a
\* handler is a step, and the steps of two invocations interleave freely.
ScopeConc ==
  [sequential |-> FALSE, writes |-> {TRUE}, budget |-> MaxConc, callers |-> Users,
   products |-> {ProdSingle, ProdPack, ProdMonthly}, ids |-> {"T1", "G1"},
   answers |-> RaceAnswers, sandbox |-> FALSE]

NextConc ==
  \/ \E r \in Slots : Finish(r)
  \/ \E r \in Slots : AppleCredits(r, ScopeConc)
  \/ \E r \in Slots : GoogleCredits(r, ScopeConc)
  \/ \E r \in Slots : AppleSub(r, ScopeConc)

SpecConc == Init /\ [][NextConc]_vars

\* The purchase endpoints of u1 against a store that may refuse any write,
\* one invocation after the other.
ScopeFault ==
  [sequential |-> TRUE, writes |-> BOOLEAN, budget |-> MaxOps,
   callers |-> {"u1"}, products |-> {ProdSingle, ProdMonthly},
   ids |-> {"T1", "G1"}, answers |-> RaceAnswers, sandbox |-> FALSE]

NextFault ==
  \/ \E r \in Slots : Finish(r)
  \/ \E r \in Slots : AppleCredits(r, ScopeFault)
  \/ \E r \in Slots : GoogleCredits(r, ScopeFault)
  \/ \E r \in Slots : AppleSub(r, ScopeFault)

SpecFault == Init /\ [][NextFault]_vars

\* Consumable purchases of T1 and G1 next to a subscription bought as T2: the
\* credits endpoints and the webhook one request after the other, with the
\* subscription endpoint supplying the records that notifications match.
GrantAnswers ==
  {AppleAnswer(StatusOK, <<Entry("T1", "T1", p, <<>>)>>, FALSE, <<>>) :
     p \in CreditProducts}
  \cup BadAnswers

ScopeGrants ==
  [sequential |-> TRUE, writes |-> {TRUE}, budget |-> MaxOps, callers |-> Users,
   products |-> CreditProducts, ids |-> {"T1", "G1"},
   answers |-> GrantAnswers, sandbox |-> FALSE]

ScopeSubs ==
  [sequential |-> TRUE, writes |-> {TRUE}, budget |-> MaxOps, callers |-> Users,
   products |-> {ProdMonthly}, ids |-> {"T2"}, answers |-> RenewingAnswers,
   origs |-> {"T1"}, sandbox |-> FALSE]

NextLedger ==
  \/ \E r \in Slots : Finish(r)
  \/ \E r \in Slots : AppleCredits(r, ScopeGrants)
  \/ \E r \in Slots : GoogleCredits(r, ScopeGrants)
  \/ \E r \in Slots : AppleSub(r, ScopeSubs)
  \/ \E r \in Slots : Webhook(r, ScopeSubs)

SpecLedger == Init /\ [][NextLedger]_vars

\* A subscription bought in the app as T1, the notifications about it and
\* check-subscription, one invocation after the other. The receipt's expiry
\* lies behind the first request (1) or beyond the last (9).
LongAnswers ==
  {AppleAnswer(StatusOK, <<>>, TRUE, <<Entry("T1", "T1", ProdMonthly, ms)>>) :
     ms \in {<<"1">>, <<"9">>}}
  \cup BadAnswers

ScopeCheck ==
  [sequential |-> TRUE, writes |-> {TRUE}, budget |-> MaxOps, callers |-> Callers,
   products |-> {ProdMonthly}, ids |-> {"T1"}, answers |-> LongAnswers,
   origs |-> {"T1"}, sandbox |-> FALSE]

NextCheck ==
  \/ \E r \in Slots : Finish(r)
  \/ \E r \in Slots : AppleSub(r, ScopeCheck)
  \/ \E r \in Slots : Webhook(r, ScopeCheck)
  \/ \E r \in Slots : CheckSubscription(r, ScopeCheck)

SpecCheck == Init /\ [][NextCheck]_vars

\* The billing service of the app through a session of credit purchases.
NextClient ==
  \/ Initialize
  \/ \E p \in CreditProducts : purchaseCredits(p)
  \/ \E p \in CreditProducts : PendingPurchase(p)
  \/ Cancelled
  \/ Approved
  \/ Verified
  \/ updateBackendCredits
  \/ notifyPurchaseComplete
  \/ NextPurchase

SpecClient == Init /\ [][NextClient]_vars

\* ----------------------------------------------------------------- claims
CreditKinds == {"appleCredits", "googleCredits"}

\* The ledger of the endpoint kind.
LedgerOf(kind) == IF kind = "googleCredits" THEN gledger ELSE ledger

\* Entitlement for transaction t has been applied through endpoint kind: its
\* row is valid, or an invocation in flight has already written the profile.
AppliedFor(kind, t) ==
  \/ LedgerOf(kind)[t].present /\ LedgerOf(kind)[t].validation_status = "valid"
  \/ \E s \in Slots : /\ req[s].kind = kind /\ req[s].tid = t
                       /\ "profile" \in req[s].wrote

\* Invocation r writes the profile in this step.
Applies(r) == "profile" \notin req[r].wrote /\ "profile" \in req'[r].wrote

\* C1: among the credits requests that carry the same transaction id, in any
\* interleaving, at most one applies credits to the profile: no request
\* writes room_credits for a transaction id whose entitlement is already
\* applied (by a valid ledger row or by an overlapping request).
C1_SingleGrant ==
  [][\A r \in Slots :
       (req[r].kind \in CreditKinds /\ Applies(r))
         => ~AppliedFor(req[r].kind, req[r].tid)]_vars

\* The request q repeats the last successful credits request, with nothing
\* in between.
Resubmitted(q) ==
  /\ q.kind \in CreditKinds /\ q.kind = last.kind /\ last.resp.success
  /\ q.seq = last.seq + 1
  /\ q.user = last.user /\ q.tid = last.tid /\ q.pid = last.pid
  /\ q.proof = last.proof

\* C2: a credits request that succeeded and is submitted again with no other
\* operation in between adds no credits, leaves room_credits and the ledger
\* unchanged, and returns success with the same newTotal as the first call.
C2_SequentialIdempotency ==
  \A r \in Slots :
    (req[r].pc = "done" /\ Resubmitted(req[r]))
      => /\ req[r].resp.code = 200 /\ req[r].resp.success
         /\ req[r].resp.newTotal = last.resp.newTotal
         /\ req[r].resp.creditsAdded = -1
         /\ "profile" \notin req[r].wrote
         /\ profiles = req[r].pre.profiles
         /\ ledger = req[r].pre.ledger /\ gledger = req[r].pre.gledger

\* A credit pack bought by u1 (3 credits before) has been resubmitted and
\* answered.
C2_Witness ==
  \E r \in Slots :
    /\ req[r].pc = "done" /\ Resubmitted(req[r])
    /\ req[r].pid = ProdPack /\ last.resp.newTotal = 8
    /\ req[r].resp.success

\* A first-time credits purchase that was verified and granted.
FirstGrant(q) ==
  /\ q.kind \in CreditKinds /\ q.pc = "done"
  /\ q.found = "none" /\ q.resp.success

\* C7: a first-time valid credits purchase of a "single_credit" product
\* raises room_credits by exactly 1 and of a "credit_pack" product by exactly
\* 5, creditsAdded is that amount and newTotal = previousTotal + creditsAdded;
\* a request for any other product id ends in an error with room_credits
\* unchanged.
C7_CreditMapping ==
  \A r \in Slots :
    LET q == req[r]
        before == q.pre.profiles[q.user].room_credits
    IN /\ FirstGrant(q)
          => /\ Includes(q.pid, "single_credit") => q.resp.creditsAdded = 1
             /\ (~Includes(q.pid, "single_credit") /\ Includes(q.pid, "credit_pack"))
                  => q.resp.creditsAdded = 5
             /\ q.resp.newTotal = before + q.resp.creditsAdded
             /\ profiles[q.user].room_credits = q.resp.newTotal
       /\ (/\ q.kind \in CreditKinds /\ q.pc = "done" /\ q.found = "none"
           /\ ~Includes(q.pid, "single_credit")
           /\ ~Includes(q.pid, "credit_pack"))
          => /\ ~q.resp.success /\ q.resp.code = 500
             /\ profiles = q.pre.profiles

\* u1 (3 credits) has bought a credit pack on Google Play for the first time.
C7_Witness ==
  \E r \in Slots :
    /\ FirstGrant(req[r]) /\ req[r].kind = "googleCredits"
    /\ req[r].pid = ProdPack /\ req[r].user = "u1"
    /\ req[r].resp.creditsAdded = 5 /\ req[r].resp.newTotal = 8

ApplePurchaseKinds == {"appleCredits", "appleSub"}

\* C3: when verification succeeds but the matched entry's product_id differs
\* from the productId the client claimed, the request ends in an error, no
\* entitlement is applied, and the ledger holds a record for that transaction
\* id with validation_status = invalid.
C3_ProductIdIntegrity ==
  \A r \in Slots :
    LET q == req[r]
    IN (/\ q.kind \in ApplePurchaseKinds /\ q.pc = "done"
        /\ q.resp.err = "Product ID mismatch")
       => /\ q.resp.code = 500
          /\ profiles = q.pre.profiles
          /\ ledger[q.tid].present
          /\ ledger[q.tid].validation_status = "invalid"

Rejected(row) == row.present /\ row.validation_status \in {"invalid", "refunded"}

\* C4: once the ledger record of a transaction id is invalid or refunded, the
\* record never becomes valid again, whatever purchase requests for that
\* transaction id are in flight or arrive later.
C4_RejectionPermanence ==
  [][/\ \A t \in TxIds :
          Rejected(ledger[t]) => ledger'[t].validation_status # "valid"
     /\ \A o \in OrderIds :
          Rejected(gledger[o]) => gledger'[o].validation_status # "valid"]_vars

\* C5: whenever the subscription endpoint activates a subscription from a
\* receipt whose matched entry reports expires_date_ms = T, the expiry in the
\* profile, in the ledger record and in the response equals T exactly, never
\* a value taken from the clock; a matched entry without an expiry yields an
\* error and no mutation.
C5_ExpiryAuthority ==
  \A r \in Slots :
    LET q == req[r]
    IN (q.kind = "appleSub" /\ q.pc = "done")
       => /\ "profile" \in q.wrote
               => /\ q.ms # <<>>
                  /\ profiles[q.user].subscription_status = "active"
                  /\ profiles[q.user].subscription_expires_at = parseInt(q.ms)
                  /\ ledger[q.tid].subscription_expires_at = parseInt(q.ms)
                  /\ q.resp.expiresAt = parseInt(q.ms)
          /\ q.resp.err = "No expiration date in receipt"
               => /\ q.resp.code = 500
                  /\ profiles = q.pre.profiles /\ ledger = q.pre.ledger

\* A subscription whose matched entry expires at 1 has been activated at a
\* later time.
C5_Witness ==
  \E r \in Slots :
    /\ req[r].kind = "appleSub" /\ req[r].pc = "done"
    /\ "profile" \in req[r].wrote /\ req[r].ms = <<"1">> /\ now = 2
    /\ profiles[req[r].user].subscription_expires_at = 1

\* C6: when verification returns a non-success status, the purchase endpoint
\* answers with an error, the request leaves no valid record for the
\* transaction id, an invalid record is persisted, and the user's credits and
\* subscription fields are unchanged.
C6_FailedVerification ==
  \A r \in Slots :
    LET q == req[r]
    IN (/\ q.kind \in ApplePurchaseKinds /\ q.pc = "done"
        /\ q.vstatus \notin {-1, StatusOK})
       => /\ q.resp.code = 500
          /\ profiles = q.pre.profiles
          /\ ledger[q.tid].present
          /\ ledger[q.tid].validation_status = "invalid"

\* A renewal notification with every field it needs, for a transaction id
\* other than the original one.
WellFormedRenewal(q) ==
  /\ q.kind = "webhook" /\ q.ntype \in RenewTypes
  /\ q.tid # Missing /\ q.tid # q.orig
  /\ q.pid # NoProduct /\ ~DateThrows(parseInt(q.ms))

\* C8: after a DID_RENEW or RENEWAL notification whose original transaction
\* id matches a ledger record has been processed, the owner of the most
\* recent such record is active with the notification's expiry, and the
\* ledger holds a valid, processed record for the notification's transaction
\* id with the same original transaction id and that user.
C8_Renewal ==
  \A r \in Slots :
    LET q == req[r]
    IN (WellFormedRenewal(q) /\ q.pc = "done" /\ q.target # "")
       => /\ profiles[q.target].subscription_status = "active"
          /\ profiles[q.target].subscription_expires_at = parseInt(q.ms)
          /\ ledger[q.tid].present
          /\ ledger[q.tid].validation_status = "valid"
          /\ ledger[q.tid].processed
          /\ ledger[q.tid].original_transaction_id = q.orig
          /\ ledger[q.tid].user_id = q.target

\* A REFUND notification for a transaction id has been answered.
RefundDone(q) ==
  q.kind = "webhook" /\ q.ntype = "REFUND" /\ q.pc = "done" /\ q.tid # Missing

\* C9 as stated: after a REFUND notification for transaction id T2 has been
\* processed, a record for T2, if there is one, is refunded and its owning
\* user's profile is refunded with the expiry set to the processing time.
C9_Refund ==
  \A r \in Slots :
    LET q == req[r]
    IN (RefundDone(q) /\ ledger[q.tid].present)
       => /\ ledger[q.tid].validation_status = "refunded"
          /\ profiles[ledger[q.tid].user_id].subscription_status = "refunded"
          /\ profiles[ledger[q.tid].user_id].subscription_expires_at = q.started

\* C9 amended: when the notification's original transaction id matches a
\* ledger record, the record for T2, if there is one, is refunded and the
\* profile of the owner of the most recent matching record is refunded with
\* the expiry set to the processing time; when it matches none, nothing
\* changes.
C9_RefundMatched ==
  \A r \in Slots :
    LET q == req[r]
    IN RefundDone(q)
       => /\ q.resp.code = 200
          /\ q.target # ""
               => /\ ledger[q.tid].present
                       => ledger[q.tid].validation_status = "refunded"
                  /\ profiles[q.target].subscription_status = "refunded"
                  /\ profiles[q.target].subscription_expires_at = q.started
          /\ q.target = ""
               => profiles = q.pre.profiles /\ ledger = q.pre.ledger

\* The refund of T2, a renewal owned by u1, has been processed: the record
\* is refunded and u1's access ended at the processing time.
C9_Witness ==
  \E r \in Slots :
    /\ RefundDone(req[r]) /\ req[r].tid = "T2" /\ req[r].target = "u1"
    /\ ledger["T2"].present /\ ledger["T2"].validation_status = "refunded"
    /\ ledger["T2"].user_id = "u1"
    /\ profiles["u1"].subscription_status = "refunded"
    /\ profiles["u1"].subscription_expires_at = now

\* C10: the webhook answers HTTP 200 to every notification it can parse,
\* whatever its type and whichever optional fields it carries.
C10_AlwaysAcknowledged ==
  \A r \in Slots :
    (req[r].kind = "webhook" /\ req[r].pc = "done" /\ req[r].ntype # "")
      => req[r].resp.code = 200

PurchaseKinds == {"appleCredits", "googleCredits", "appleSub"}

\* C11: a purchase request one of whose store writes failed (the profile
\* update, or the ledger insert/upsert of the valid or invalid record)
\* answers with an error payload, never with success: true.
C11_PersistenceFailuresSurface ==
  \A r \in Slots :
    (req[r].kind \in PurchaseKinds /\ req[r].pc = "done" /\ req[r].failed # {})
      => (req[r].resp.code = 500 /\ ~req[r].resp.success)

\* C12: every authenticated, well-formed credits request whose transaction
\* id had no ledger record and whose verification was answered leaves a
\* ledger record for that transaction id when it finishes, whether the
\* attempt ended valid or failed.
C12_AuditTrail ==
  \A r \in Slots :
    (/\ req[r].kind \in CreditKinds /\ req[r].pc = "done"
     /\ req[r].found = "none" /\ req[r].vstatus # -1)
      => LedgerOf(req[r].kind)[req[r].tid].present

\* A record of table stays and, once processed, stays processed in this step.
Kept(table, after) ==
  \A k \in DOMAIN table :
    table[k].present
      => (after[k].present /\ (table[k].processed => after[k].processed))

\* C13: ledger records never regress: a record that has had processed = true
\* keeps it, and no record is ever deleted, under any sequence of
\* subscription requests and webhook notifications.
C13_NeverRegress == [][Kept(ledger, ledger') /\ Kept(gledger, gledger')]_vars

\* A processed record has been refunded by the webhook and is still there,
\* still processed.
C13_Witness ==
  \E r \in Slots :
    /\ RefundDone(req[r]) /\ "ledger" \in req[r].wrote
    /\ req[r].pre.ledger[req[r].tid].processed
    /\ ledger[req[r].tid].validation_status = "refunded"
    /\ ledger[req[r].tid].processed

\* A credits request whose ledger lookup found a valid record has answered.
ShortCircuited(q) ==
  q.kind \in CreditKinds /\ q.pc = "done" /\ q.found = "valid"

\* C14: a credits request whose ledger lookup finds a valid record for the
\* submitted transaction id calls no platform verifier, writes neither the
\* profile nor a ledger, and returns success with the caller's current
\* room_credits.
C14_ShortCircuit ==
  \A r \in Slots :
    ShortCircuited(req[r])
      => /\ req[r].calls = <<>> /\ req[r].wrote = {}
         /\ profiles = req[r].pre.profiles
         /\ ledger = req[r].pre.ledger /\ gledger = req[r].pre.gledger
         /\ req[r].resp.code = 200 /\ req[r].resp.success
         /\ req[r].resp.newTotal = profiles[req[r].user].room_credits

\* A Google Play order that was granted is submitted by the other user, who
\* gets success with a balance of their own.
C14_Witness ==
  \E r \in Slots :
    /\ ShortCircuited(req[r]) /\ req[r].kind = "googleCredits"
    /\ gledger[req[r].tid].user_id # req[r].user
    /\ req[r].resp.newTotal > 0

\* A subscription request that found a valid record has answered: as a zombie
\* (profile not active with an expiry) or as a replay.
SubFound(q, how) == q.kind = "appleSub" /\ q.pc = "done" /\ q.found = how

\* Invocation r, a zombie, takes the step at pc in this step.
ZombieStep(r, pc) ==
  /\ req[r].kind = "appleSub" /\ req[r].found = "zombie"
  /\ req[r].pc = pc /\ req'[r].pc # pc

\* C15: a subscription request that finds a valid record while the caller's
\* profile is not active calls the verifier again, and the expiry it writes to
\* the profile and the ledger is the one of the fresh verification response;
\* with the profile active with an expiry it answers with no verifier call
\* and no write.
C15_ZombieRevalidation ==
  [][\A r \in Slots :
       /\ (req[r].kind = "appleSub" /\ req[r].found = "zombie"
             /\ req[r].pc # "verify")
            => req[r].calls # <<>>
       /\ (ZombieStep(r, "update") /\ profiles' # profiles)
            => profiles'[req[r].user].subscription_expires_at
                 = parseInt(req[r].ms)
       /\ (ZombieStep(r, "upsert") /\ ledger' # ledger)
            => ledger'[req[r].tid].subscription_expires_at
                 = parseInt(req[r].ms)
       /\ SubFound(req'[r], "valid")
            => /\ req'[r].calls = <<>> /\ req'[r].wrote = {}
               /\ req'[r].resp.code = 200 /\ req'[r].resp.success
               /\ req'[r].pc # req[r].pc
                    => (profiles' = profiles /\ ledger' = ledger)]_vars

\* A zombie has been re-activated with an expiry other than the stored one.
C15_Witness ==
  \E r \in Slots :
    /\ SubFound(req[r], "zombie") /\ req[r].resp.success
    /\ req[r].pre.ledger[req[r].tid].product_type = "subscription"
    /\ req[r].pre.ledger[req[r].tid].subscription_expires_at
         # ledger[req[r].tid].subscription_expires_at

\* C16: the subscription endpoint applies entitlement only when the verified
\* receipt holds an entry whose transaction_id or original_transaction_id is
\* the submitted transactionId: a request that writes the profile or the
\* ledger after verification used such an entry.
C16_FailClosed ==
  \A r \in Slots :
    (req[r].kind = "appleSub" /\ req[r].vstatus = StatusOK
       /\ req[r].wrote # {})
      => (req[r].entry = req[r].tid \/ req[r].orig = req[r].tid)

\* An invocation of an Apple endpoint that has been to the verifier.
AppleVerified(q) == q.kind \in ApplePurchaseKinds /\ q.calls # <<>>

\* C17: every Apple verification starts with the production endpoint; the
\* sandbox endpoint is called only after production answered 21007, at most
\* once and with the same receipt, so a request makes at most two calls; the
\* result used is the sandbox response exactly when production answered 21007.
C17_EnvironmentSelection ==
  \A r \in Slots :
    AppleVerified(req[r])
      => LET calls == req[r].calls
             used == calls[Len(calls)]
         IN /\ calls[1].endpoint = "production" /\ Len(calls) <= 2
            /\ \A i \in 1..Len(calls) : calls[i].proof = req[r].proof
            /\ Len(calls) = 2
                 <=> calls[1].status = StatusSandbox
            /\ Len(calls) = 2 => calls[2].endpoint = "sandbox"
            /\ req[r].vstatus # -1 => req[r].vstatus = used.status

\* A sandbox receipt has been verified and granted after production answered
\* 21007.
C17_Witness ==
  \E r \in Slots :
    /\ AppleVerified(req[r]) /\ Len(req[r].calls) = 2
    /\ req[r].pc = "done" /\ req[r].resp.success

\* A Google credits request has answered after the API reported a
\* purchaseState other than purchased.
NotPurchased(q) ==
  q.kind = "googleCredits" /\ q.pc = "done" /\ q.vstatus \in {1, 2}

\* A Google credits request has answered for an order id recorded as invalid.
OrderRejected(q) ==
  /\ q.kind = "googleCredits" /\ q.pc = "done" /\ q.tid \in OrderIds
  /\ q.pre.gledger[q.tid].present
  /\ q.pre.gledger[q.tid].validation_status = "invalid"

\* C18: when the Google Play API reports a purchaseState other than purchased
\* the credits endpoint answers with an error, adds no credits and records
\* the order id as invalid; a later request for that order id is rejected
\* without a call to the API and without a write.
C18_PurchaseState ==
  \A r \in Slots :
    /\ NotPurchased(req[r])
         => /\ req[r].resp.code = 500 /\ ~req[r].resp.success
            /\ profiles = req[r].pre.profiles
            /\ gledger[req[r].tid].present
            /\ gledger[req[r].tid].validation_status = "invalid"
            /\ ~gledger[req[r].tid].processed
    /\ OrderRejected(req[r])
         => /\ req[r].resp.code = 500 /\ ~req[r].resp.success
            /\ req[r].calls = <<>> /\ req[r].wrote = {}
            /\ profiles = req[r].pre.profiles
            /\ gledger = req[r].pre.gledger

\* An order that was refused as not purchased is submitted again by the same
\* user and rejected.
C18_Witness ==
  \E r \in Slots :
    /\ OrderRejected(req[r]) /\ req[r].resp.code = 500
    /\ req[r].found = "invalid"
    /\ req[r].pre.gledger[req[r].tid].user_id = req[r].user

\* A notification of one of these types, attributed to a user, has been
\* answered.
Notified(q, types) ==
  q.kind = "webhook" /\ q.pc = "done" /\ q.ntype \in types /\ q.target # ""

\* The profiles differ from before at most in subscription_status.
StatusOnly(before, after) ==
  \A u \in Users :
    after[u] = [before[u] EXCEPT
                  !.subscription_status = after[u].subscription_status]

\* C20: DID_CHANGE_RENEWAL_STATUS / CANCEL sets subscription_status =
\* cancelled only when the notification reports auto-renew off and changes
\* nothing when it reports auto-renew on; DID_FAIL_TO_RENEW sets
\* payment_failed; in all of them subscription_expires_at, subscription_type
\* and the ledger are left unchanged.
C20_StatusOnly ==
  \A r \in Slots :
    /\ Notified(req[r], CancelTypes)
         => /\ req[r].auto_renew_status = "0"
                 => profiles[req[r].target].subscription_status = "cancelled"
            /\ req[r].auto_renew_status # "0" => profiles = req[r].pre.profiles
    /\ Notified(req[r], {"DID_FAIL_TO_RENEW"})
         => profiles[req[r].target].subscription_status = "payment_failed"
    /\ Notified(req[r], CancelTypes \cup {"DID_FAIL_TO_RENEW"})
         => /\ StatusOnly(req[r].pre.profiles, profiles)
            /\ ledger = req[r].pre.ledger /\ gledger = req[r].pre.gledger

\* Credits request r applies a first-time consumable purchase to u's profile in
\* this step.
GrantsTo(r, u) ==
  /\ req[r].kind \in CreditKinds /\ Applies(r) /\ req[r].user = u
  /\ req[r].found = "none" /\ CreditAmount(req[r].pid) > 0
  /\ ~AppliedFor(req[r].kind, req[r].tid)

\* C19: room_credits is changed only by the success path of a credits request
\* for a first-time valid consumable transaction, and only upwards; no other
\* step changes it, and it is never negative.
C19_CreditsMonotone ==
  [][\A u \in Users :
       /\ profiles'[u].room_credits >= 0
       /\ profiles'[u].room_credits # profiles[u].room_credits
            => /\ profiles'[u].room_credits > profiles[u].room_credits
               /\ \E r \in Slots : GrantsTo(r, u)]_vars

\* The invocation has changed nothing in the store.
NoEffect(q) ==
  /\ q.wrote = {} /\ profiles = q.pre.profiles
  /\ ledger = q.pre.ledger /\ gledger = q.pre.gledger

\* A notification of a type the switch has no case for has been answered.
UnknownDone(q) ==
  q.kind = "webhook" /\ q.pc = "done" /\ q.ntype = UnknownType

\* C21: a notification of an unknown type is acknowledged with HTTP 200 and
\* changes neither a profile nor a ledger record, whether or not its
\* original_transaction_id matches a ledger record.
C21_UnknownType ==
  \A r \in Slots :
    UnknownDone(req[r])
      => (req[r].resp.code = 200 /\ req[r].resp.err = "" /\ NoEffect(req[r]))

\* An unknown notification for the subscription of an active user has been
\* acknowledged.
C21_Witness ==
  \E r \in Slots :
    /\ UnknownDone(req[r]) /\ req[r].target # ""
    /\ profiles[req[r].target].subscription_status = "active"
    /\ req[r].resp.code = 200

\* A parsed notification whose original_transaction_id was on no ledger record
\* when it arrived has been answered.
Unmatched(q) ==
  /\ q.kind = "webhook" /\ q.pc = "done" /\ q.ntype # ""
  /\ \A t \in TxIds :
       ~(/\ q.pre.ledger[t].present
         /\ q.pre.ledger[t].original_transaction_id = q.orig)

\* C22: a notification of any type whose original_transaction_id matches no
\* ledger record is acknowledged with HTTP 200 and changes neither a profile
\* nor a ledger record.
C22_NoMatchNoOp ==
  \A r \in Slots :
    Unmatched(req[r])
      => (req[r].resp.code = 200 /\ req[r].resp.err = "" /\ NoEffect(req[r]))

\* A REFUND for a transaction id that is in the ledger, under an
\* original_transaction_id that matches nothing, has been acknowledged.
C22_Witness ==
  \E r \in Slots :
    /\ Unmatched(req[r]) /\ req[r].ntype = "REFUND"
    /\ req[r].tid \in TxIds /\ ledger[req[r].tid].present
    /\ ledger[req[r].tid].validation_status = "valid"
    /\ req[r].resp.code = 200

\* The notification types that have a case in the switch.
HandledTypes ==
  RenewTypes \cup CancelTypes
    \cup {"DID_FAIL_TO_RENEW", "REFUND", "REVOKE", "DID_RECOVER"}

\* The notification answered last has been delivered again, with nothing in
\* between, and answered.
Redelivered(q) ==
  /\ q.kind = "webhook" /\ q.pc = "done" /\ q.ntype \in HandledTypes
  /\ last.kind = "webhook" /\ q.seq = last.seq + 1
  /\ q.ntype = last.ntype /\ q.orig = last.orig /\ q.tid = last.tid
  /\ q.pid = last.pid /\ q.ms = last.ms
  /\ q.auto_renew_status = last.auto_renew_status

\* The profiles are as before, apart from an expiry that REFUND and REVOKE set
\* to the processing time.
SameProfiles(before, after, ntype) ==
  \A u \in Users :
    \/ after[u] = before[u]
    \/ /\ ntype \in {"REFUND", "REVOKE"}
       /\ after[u] = [before[u] EXCEPT !.subscription_expires_at =
                                         after[u].subscription_expires_at]

\* C23: processing the same notification twice in succession leaves the
\* profiles and the ledger records as processing it once did, apart from
\* processing-time timestamps, and both deliveries are acknowledged with 200.
C23_DuplicateDelivery ==
  \A r \in Slots :
    Redelivered(req[r])
      => /\ req[r].resp.code = 200 /\ last.resp.code = 200
         /\ SameProfiles(req[r].pre.profiles, profiles, req[r].ntype)
         /\ ledger = req[r].pre.ledger /\ gledger = req[r].pre.gledger

\* A purchase request without a session or without a required field.
Unacceptable(q) ==
  /\ q.kind \in PurchaseKinds
  /\ \/ q.user \in {NoAuthHeader, BadToken}
     \/ q.proof = Missing \/ q.pid = NoProduct \/ q.tid = Missing

\* C24: a purchase request with no Authorization header, with a token that
\* resolves to no user, or with a required field missing ends in an error
\* with no ledger lookup, no verifier call and no profile or ledger write.
C24_RejectedBeforeEffects ==
  \A r \in Slots :
    Unacceptable(req[r])
      => /\ req[r].pc = "done"
         /\ req[r].resp.code = 500 /\ ~req[r].resp.success
         /\ req[r].found = "" /\ req[r].calls = <<>>
         /\ NoEffect(req[r])

\* An authenticated Google Play request without an orderId has been refused
\* while the ledger holds records.
C24_Witness ==
  \E r \in Slots :
    /\ Unacceptable(req[r]) /\ req[r].kind = "googleCredits"
    /\ req[r].user \in Users /\ req[r].tid = Missing
    /\ req[r].resp.code = 500
    /\ \E o \in OrderIds : gledger[o].present

\* C25: after a REVOKE notification attributed to a user is processed, that
\* user's subscription_status is revoked and subscription_expires_at is the
\* processing time; subscription_type, room_credits, the other profiles and
\* every ledger record are unchanged.
C25_Revoke ==
  \A r \in Slots :
    Notified(req[r], {"REVOKE"})
      => /\ profiles = [req[r].pre.profiles EXCEPT
                          ![req[r].target].subscription_status = "revoked",
                          ![req[r].target].subscription_expires_at = req[r].started]
         /\ ledger = req[r].pre.ledger /\ gledger = req[r].pre.gledger
         /\ req[r].resp.code = 200

\* The subscription of a user who holds credits has been revoked.
C25_Witness ==
  \E r \in Slots :
    /\ Notified(req[r], {"REVOKE"}) /\ req[r].target = "u1"
    /\ req[r].pre.profiles["u1"].subscription_status = "active"
    /\ profiles["u1"].subscription_status = "revoked"
    /\ profiles["u1"].subscription_type # "none"
    /\ profiles["u1"].room_credits > 0

\* The ledger of the endpoint of q as it was when q arrived.
LedgerBefore(q) == IF q.kind = "googleCredits" THEN q.pre.gledger ELSE q.pre.ledger

\* A purchase request for a transaction id that was recorded as valid for
\* another user when the request arrived has been answered.
ForeignRecord(q) ==
  /\ q.kind \in PurchaseKinds /\ q.pc = "done" /\ q.user \in Users
  /\ q.tid \in DOMAIN LedgerBefore(q)
  /\ LedgerBefore(q)[q.tid].present
  /\ LedgerBefore(q)[q.tid].validation_status = "valid"
  /\ LedgerBefore(q)[q.tid].user_id # q.user

\* C26: a transaction id recorded as valid for user A stays attributed to A:
\* when another user B submits a purchase request with it, B's entitlement is
\* unchanged and the record's user_id is still A.
C26_OwnershipStable ==
  \A r \in Slots :
    ForeignRecord(req[r])
      => /\ profiles[req[r].user] = req[r].pre.profiles[req[r].user]
         /\ LedgerOf(req[r].kind)[req[r].tid].user_id
              = LedgerBefore(req[r])[req[r].tid].user_id

\* C27: a Google Play purchase token leads to at most one credit grant,
\* whatever orderId it is submitted with: no Google credits request is granted
\* for the token of the grant before it.
C27_OneGrantPerToken ==
  \A r \in Slots :
    (/\ req[r].kind = "googleCredits" /\ req[r].pc = "done"
     /\ last.kind = "googleCredits" /\ last.proof = req[r].proof
     /\ last.resp.creditsAdded > 0)
      => ~(req[r].resp.success /\ req[r].resp.creditsAdded > 0)

\* Credits request r has been granted.
Granted(r) ==
  /\ req[r].kind \in CreditKinds /\ req[r].pc = "done"
  /\ req[r].resp.success /\ req[r].resp.creditsAdded > 0

\* C28: when two credits requests of one user with distinct transaction ids
\* overlap, then once both have returned success the user's room_credits is
\* the value before both plus the sum of both credit amounts.
C28_NoLostUpdate ==
  \A a, b \in Slots :
    (/\ Granted(a) /\ Granted(b) /\ req[a].seq < req[b].seq
     /\ req[a].user = req[b].user
     /\ <<req[a].kind, req[a].tid>> # <<req[b].kind, req[b].tid>>)
      => profiles[req[a].user].room_credits
           = req[a].pre.profiles[req[a].user].room_credits
               + req[a].resp.creditsAdded + req[b].resp.creditsAdded

\* The credit amounts of the consumable records among keys of table that are
\* owned by u and were recorded as processed.
RECURSIVE CreditsRecorded(_, _, _)
CreditsRecorded(table, keys, u) ==
  IF keys = {} THEN 0
  ELSE LET k == CHOOSE x \in keys : TRUE
           row == table[k]
           counts == /\ row.present /\ row.user_id = u /\ row.processed
                     /\ row.product_type = "consumable"
       IN (IF counts THEN CreditAmount(row.product_id) ELSE 0)
            + CreditsRecorded(table, keys \ {k}, u)

\* No request is being processed.
Quiescent == \A r \in Slots : req[r].pc \in {"idle", "done"}

\* C29: with requests one after the other and no store errors, between
\* requests each user's room_credits is the initial value plus the credit
\* amounts of the consumable records of that user that were recorded valid
\* and processed.
C29_CreditConservation ==
  Quiescent
    => \A u \in Users :
         profiles[u].room_credits
           = InitProfiles[u].room_credits
               + CreditsRecorded(ledger, TxIds, u)
               + CreditsRecorded(gledger, OrderIds, u)

\* u1 holds the credits of an Apple and a Google purchase, and a notification
\* has been answered since.
C29_Witness ==
  /\ Quiescent /\ last.kind = "webhook" /\ last.resp.code = 200
  /\ profiles["u1"].room_credits > InitProfiles["u1"].room_credits + 1
  /\ ledger["T1"].present /\ ledger["T1"].user_id = "u1"
  /\ ledger["T1"].product_type = "consumable" /\ ledger["T1"].processed
  /\ gledger["G1"].present /\ gledger["G1"].user_id = "u1"
\* A finished subscription request of a user whose subscription_status a
\* REVOKE or REFUND notification had set, for a transaction id that the ledger
\* held as a valid subscription record of that user when the request arrived.
ResubmittedAfterRevocation(q) ==
  /\ q.kind = "appleSub" /\ q.pc = "done" /\ q.tid \in TxIds
  /\ q.pre.profiles[q.user].subscription_status \in {"revoked", "refunded"}
  /\ q.pre.ledger[q.tid].present
  /\ q.pre.ledger[q.tid].user_id = q.user
  /\ q.pre.ledger[q.tid].product_type = "subscription"
  /\ q.pre.ledger[q.tid].validation_status = "valid"

\* C30: resubmitting to the subscription endpoint a transaction id that the
\* ledger holds as valid, after a REVOKE or REFUND notification made the user
\* revoked or refunded, does not set subscription_status back to active.
C30_RevocationStays ==
  \A r \in Slots :
    ResubmittedAfterRevocation(req[r])
      => profiles[req[r].user].subscription_status # "active"

\* A DID_RECOVER notification that carries an expiry has been answered, and
\* the notification answered just before it was a DID_FAIL_TO_RENEW for the
\* same original transaction id.
RecoveredAfterFailure(q) ==
  /\ Notified(q, {"DID_RECOVER"}) /\ ~DateThrows(parseInt(q.ms))
  /\ last.kind = "webhook" /\ last.ntype = "DID_FAIL_TO_RENEW"
  /\ last.orig = q.orig /\ last.resp.code = 200

\* C38: for a user attributed through the ledger, DID_FAIL_TO_RENEW leaves
\* subscription_type as it was, and a DID_RECOVER that follows it leaves
\* subscription_status = active with subscription_expires_at equal to the
\* expiry the DID_RECOVER carries and subscription_type still as it was.
C38_Recovery ==
  \A r \in Slots :
    LET q == req[r]
    IN /\ Notified(q, {"DID_FAIL_TO_RENEW"})
            => /\ profiles[q.target].subscription_status = "payment_failed"
               /\ profiles[q.target].subscription_type
                    = q.pre.profiles[q.target].subscription_type
       /\ RecoveredAfterFailure(q)
            => /\ q.pre.profiles[q.target].subscription_status = "payment_failed"
               /\ profiles[q.target].subscription_status = "active"
               /\ profiles[q.target].subscription_expires_at = parseInt(q.ms)
               /\ profiles[q.target].subscription_type
                    = q.pre.profiles[q.target].subscription_type

\* u1's failed renewal has been recovered with an expiry other than the one
\* stored before.
C38_Witness ==
  \E r \in Slots :
    /\ RecoveredAfterFailure(req[r]) /\ req[r].target = "u1"
    /\ profiles["u1"].subscription_status = "active"
    /\ profiles["u1"].subscription_type = "monthly"
    /\ profiles["u1"].subscription_expires_at
         # req[r].pre.profiles["u1"].subscription_expires_at

\* A DID_RENEW / RENEWAL notification has been answered with 200 for a user
\* whose profile was refunded or revoked when it arrived.
RenewedAfterTermination(q) ==
  /\ Notified(q, RenewTypes) /\ q.resp.code = 200
  /\ q.pre.profiles[q.target].subscription_status \in {"refunded", "revoked"}

\* A DID_RENEW / RENEWAL notification has been answered with 200 right after
\* one for the same original transaction id that carried a later expiry.
OlderRenewalAfterNewer(q) ==
  /\ Notified(q, RenewTypes) /\ q.resp.code = 200
  /\ last.kind = "webhook" /\ last.ntype \in RenewTypes
  /\ last.orig = q.orig /\ last.resp.code = 200
  /\ parseInt(q.ms) < parseInt(last.ms)

\* C32: a DID_RENEW / RENEWAL notification processed after the profile was
\* set to refunded or revoked does not set subscription_status back to
\* active, and an older DID_RENEW processed after a newer one does not move
\* subscription_expires_at to an earlier time.
C32_StaleNotifications ==
  \A r \in Slots :
    LET q == req[r]
    IN /\ RenewedAfterTermination(q)
            => profiles[q.target].subscription_status # "active"
       /\ OlderRenewalAfterNewer(q)
            => profiles[q.target].subscription_expires_at
                 >= q.pre.profiles[q.target].subscription_expires_at
\* A purchase request of a signed-in user has been answered with an error
\* payload (HTTP 500).
FailedPurchase(q) ==
  /\ q.kind \in PurchaseKinds /\ q.pc = "done" /\ q.user \in Users
  /\ q.resp.code = 500

VerifierFailedDone(q) ==
  q.kind \in PurchaseKinds /\ q.pc = "done" /\ VerifierFailed(q)

\* The request q repeats the request answered just before it, whose
\* verification call had failed.
RetriedAfterVerifierFailure(q) ==
  /\ q.kind \in PurchaseKinds /\ q.pc = "done"
  /\ q.kind = last.kind /\ last.resp.code = 500 /\ q.seq = last.seq + 1
  /\ q.user = last.user /\ q.tid = last.tid /\ q.pid = last.pid
  /\ q.proof = last.proof

\* C34: when the verification call itself fails (network error or non-2xx
\* from Apple or Google), the purchase endpoint answers with an error and
\* changes neither the ledger nor a profile; the same request submitted again
\* is not refused on account of the failed attempt but verified afresh.
C34_VerifierFailureNoTrace ==
  \A r \in Slots :
    /\ VerifierFailedDone(req[r])
         => (req[r].resp.code = 500 /\ ~req[r].resp.success /\ NoEffect(req[r]))
    /\ RetriedAfterVerifierFailure(req[r]) => req[r].calls # <<>>

\* A Google Play request is granted on the second submission, after the
\* verification call of the first had failed.
C34_Witness ==
  \E r \in Slots :
    /\ RetriedAfterVerifierFailure(req[r]) /\ req[r].kind = "googleCredits"
    /\ req[r].resp.success /\ req[r].resp.creditsAdded > 0
    /\ gledger[req[r].tid].validation_status = "valid"

\* The invocation stands before the ledger write that records its
\* transaction as valid and processed.
BeforeLedgerMark(q) ==
  \/ q.kind \in CreditKinds /\ q.pc = "insert"
  \/ q.kind = "appleSub" /\ q.pc = "upsert"
  \/ q.kind = "webhook" /\ q.pc = "renewInsert"

\* The profile carries the entitlement the invocation grants.
EntitlementApplied(q) ==
  /\ "profile" \in q.wrote /\ "profile" \notin q.failed
  /\ IF q.kind \in CreditKinds
     THEN profiles[q.user].room_credits = q.cur + q.amount /\ q.amount > 0
     ELSE LET u == IF q.kind = "webhook" THEN q.target ELSE q.user
          IN /\ profiles[u].subscription_status = "active"
             /\ profiles[u].subscription_expires_at = q.expires

\* The ledger record of the invocation's transaction id (none without an id).
RecordOf(q, apple, google) ==
  IF q.kind = "googleCredits" THEN google[q.tid]
  ELSE IF q.tid \in TxIds THEN apple[q.tid]
  ELSE NoRow

\* C35 as stated: between its two writes a purchase endpoint or the renewal
\* webhook has applied the entitlement, and no valid record exists for the
\* transaction id.
C35_NoValidRecordYet ==
  \A r \in Slots :
    BeforeLedgerMark(req[r])
      => /\ EntitlementApplied(req[r])
         /\ ~(/\ RecordOf(req[r], ledger, gledger).present
              /\ RecordOf(req[r], ledger, gledger).validation_status = "valid")

\* C35, amended: between its two writes a purchase endpoint or the renewal
\* webhook has applied the entitlement and has not written the ledger: the
\* record of the transaction id is what it was when the request arrived, so
\* for a transaction id the ledger did not hold no valid record exists.
C35_EntitlementFirst ==
  \A r \in Slots :
    BeforeLedgerMark(req[r])
      => /\ EntitlementApplied(req[r])
         /\ "ledger" \notin req[r].wrote
         /\ RecordOf(req[r], ledger, gledger)
              = RecordOf(req[r], req[r].pre.ledger, req[r].pre.gledger)
         /\ ~RecordOf(req[r], req[r].pre.ledger, req[r].pre.gledger).present
              => ~RecordOf(req[r], ledger, gledger).present

\* A renewal notification has activated u1 and its ledger insert is still to
\* come, the transaction id being new to the ledger.
C35_Witness ==
  \E r \in Slots :
    /\ BeforeLedgerMark(req[r]) /\ req[r].kind = "webhook"
    /\ req[r].target = "u1" /\ req[r].tid \in TxIds
    /\ ~ledger[req[r].tid].present
    /\ profiles["u1"].subscription_status = "active"

\* The Apple credits endpoint has matched the request against a receipt that
\* Apple verified with status 0.
ReceiptSearched(q) ==
  q.kind = "appleCredits" /\ q.pc = "done" /\ q.vstatus = StatusOK

\* C36: the Apple credits endpoint grants credits only when the submitted
\* transactionId is the transaction_id of an entry of the verified receipt
\* (in_app, else latest_receipt_info); when no entry carries it the request
\* ends in an error, room_credits is unchanged and the ledger holds no valid
\* record for the transaction id.
C36_GrantNeedsListedTransaction ==
  \A r \in Slots :
    LET q == req[r]
    IN /\ (Granted(r) /\ q.kind = "appleCredits") => q.entry = q.tid
       /\ (ReceiptSearched(q) /\ q.entry = Missing)
            => /\ q.resp.code = 500 /\ ~q.resp.success
               /\ profiles = q.pre.profiles
               /\ ~(ledger[q.tid].present
                    /\ ledger[q.tid].validation_status = "valid")

\* A receipt that Apple verified but that does not list the transaction has
\* been refused for a user who was granted credits before.
C36_Witness ==
  \E r \in Slots :
    /\ ReceiptSearched(req[r]) /\ req[r].entry = Missing
    /\ req[r].resp.code = 500
    /\ req[r].user \in Users
    /\ profiles[req[r].user].room_credits
         > InitProfiles[req[r].user].room_credits

\* check-subscription has answered a signed-in caller.
Checked(q) ==
  q.kind = "checkSubscription" /\ q.pc = "done" /\ q.user \in Users

\* The subscription a profile holds has been paid for beyond time t.
PaidBeyond(profile, t) ==
  /\ profile.subscription_expires_at # NULL
  /\ profile.subscription_expires_at > t

\* C37: whenever the caller's profile has subscription_status = active and a
\* subscription_expires_at in the future, check-subscription returns
\* subscribed: true with the stored type and expiry and writes no profile.
C37_LiveSubscriptionKept ==
  \A r \in Slots :
    LET q == req[r]
        stored == q.pre.profiles[q.user]
    IN (/\ Checked(q) /\ stored.subscription_status = "active"
        /\ PaidBeyond(stored, q.started))
       => /\ q.resp.code = 200 /\ q.resp.subscribed
          /\ q.resp.subscription_type = stored.subscription_type
          /\ q.resp.subscription_status = "active"
          /\ q.resp.expiresAt = stored.subscription_expires_at
          /\ NoEffect(q)

\* check-subscription has answered u1, whose in-app subscription runs until 9.
C37_Witness ==
  \E r \in Slots :
    /\ Checked(req[r]) /\ req[r].user = "u1" /\ req[r].resp.subscribed
    /\ profiles["u1"].subscription_status = "active"
    /\ profiles["u1"].subscription_expires_at = 9
    /\ ledger["T1"].user_id = "u1"

\* The webhook had marked the caller's subscription cancelled or
\* payment_failed, and its paid period had not ended when check-subscription
\* was called.
CheckedInPaidPeriod(q) ==
  /\ Checked(q) /\ q.resp.code = 200
  /\ q.pre.profiles[q.user].subscription_status \in {"cancelled", "payment_failed"}
  /\ PaidBeyond(q.pre.profiles[q.user], q.started)

\* C31: when the webhook has set subscription_status to cancelled or
\* payment_failed on a profile whose subscription_expires_at is still in the
\* future, a later check-subscription call does not reset subscription_status
\* to inactive, subscription_type to none or subscription_expires_at to null.
C31_PaidPeriodKept ==
  \A r \in Slots :
    CheckedInPaidPeriod(req[r])
      => /\ profiles[req[r].user].subscription_status # "inactive"
         /\ profiles[req[r].user].subscription_type # "none"
         /\ profiles[req[r].user].subscription_expires_at # NULL

\* C39: when the approved and the verified event of one Google Play credit
\* purchase have been handled, GooglePlayBillingService has invoked the
\* backend validation exactly once and has notified the purchase-complete
\* listeners at most once (once when the validation succeeded), however often
\* purchaseCredits was called before in the session.
C39_OneSubmission ==
  Completed(client) => (client.invoked = 1 /\ client.notified <= 1)

====
